---- MODULE Spec2Model ----
(***************************************************************************)
(* A model of prololo: webhook ingestion (signature / token guards, event  *)
(* type dispatch, payload parsing), the unbounded event channel and the    *)
(* single consumer task that turns events into Matrix messages.            *)
(*                                                                         *)
(* Strings whose characters matter (signatures, tokens, commit ids) are    *)
(* sequences of byte values; strings that are only compared as a whole     *)
(* (event types, actions, room names) are TLA+ strings.                    *)
(***************************************************************************)
EXTENDS Integers, Sequences, FiniteSets, TLC

(***************************************************************************)
(* Bytes, bits and hexadecimal text (the hex crate as used by signing.rs). *)
(***************************************************************************)

Pow2(k) == IF k = 0 THEN 1 ELSE IF k = 1 THEN 2 ELSE IF k = 2 THEN 4
           ELSE IF k = 3 THEN 8 ELSE IF k = 4 THEN 16 ELSE IF k = 5 THEN 32
           ELSE IF k = 6 THEN 64 ELSE 128

\* the byte b with bit k (0 = least significant) inverted
FlipByte(b, k) == IF (b \div Pow2(k)) % 2 = 1 THEN b - Pow2(k) ELSE b + Pow2(k)

\* the byte string s with bit k of its i-th byte inverted
FlipBit(s, i, k) == [s EXCEPT ![i] = FlipByte(s[i], k)]

\* the ASCII code of the lowercase hex digit of the nibble n
HexChar(n) == IF n < 10 THEN 48 + n ELSE 97 + (n - 10)

\* hex::encode: two lowercase digits per byte, high nibble first
HexEncode(bytes) ==
    [i \in 1..(2 * Len(bytes)) |->
        LET b == bytes[(i + 1) \div 2]
        IN  IF i % 2 = 1 THEN HexChar(b \div 16) ELSE HexChar(b % 16)]

\* the value of one hex digit as hex::decode reads it: 0-9, a-f and A-F are
\* digits, every other byte is an error (-1)
HexVal(c) ==
    IF c >= 48 /\ c <= 57 THEN c - 48
    ELSE IF c >= 97 /\ c <= 102 THEN c - 87
    ELSE IF c >= 65 /\ c <= 70 THEN c - 55
    ELSE -1

\* hex::decode: an odd length or a byte that is no hex digit is an error
HexDecode(s) ==
    IF Len(s) % 2 # 0 \/ (\E i \in 1..Len(s) : HexVal(s[i]) = -1)
    THEN [ok |-> FALSE, bytes |-> <<>>]
    ELSE [ok |-> TRUE,
          bytes |-> [j \in 1..(Len(s) \div 2) |->
                        16 * HexVal(s[2 * j - 1]) + HexVal(s[2 * j])]]

\* str::strip_prefix: the rest of s after the prefix p, when s starts with p
StripPrefix(s, p) ==
    IF Len(s) >= Len(p) /\ SubSeq(s, 1, Len(p)) = p
    THEN [some |-> TRUE, rest |-> SubSeq(s, Len(p) + 1, Len(s))]
    ELSE [some |-> FALSE, rest |-> <<>>]

\* "sha256="
Sha256Prefix == <<115, 104, 97, 50, 53, 54, 61>>

(***************************************************************************)
(* The keyed MAC.  HMAC-SHA256 is a library primitive; it is modelled by a *)
(* 16-bit keyed polynomial hash (h <- 31*h + byte + 1 over the secret and  *)
(* then the data), written out as two bytes.  What the model keeps of the  *)
(* primitive: the tag depends on every bit of the secret and of the data,  *)
(* and has a fixed length.                                                 *)
(***************************************************************************)
RECURSIVE MacFold(_, _)
MacFold(h, s) ==
    IF s = <<>> THEN h
    ELSE MacFold((31 * h + Head(s) + 1) % 65536, Tail(s))

\* HmacSha256::new_from_slice(secret) followed by update(data) and finalize
Mac(secret, data) ==
    LET h == MacFold(MacFold(7, secret), data)
    IN  <<h \div 256, h % 256>>

\* a mutant of the tag comparison: only the first byte of the tag is compared
MacVerifyFirstByte(secret, data, bytes) ==
    Len(bytes) >= 1 /\ bytes[1] = Mac(secret, data)[1]

\* mac.verify(&bytes): the whole tag, length included, equals the computed one
MacVerify(secret, data, bytes) == bytes = Mac(secret, data)

\* a mutant of validate_signature that treats the prefix as optional
validate_signature_optional_prefix(secret, signature, data) ==
    LET stripped == StripPrefix(signature, Sha256Prefix)
        hex == IF stripped.some THEN stripped.rest ELSE signature
        decoded == HexDecode(hex)
    IN  IF decoded.ok THEN MacVerify(secret, data, decoded.bytes) ELSE FALSE

\* validate_signature
validate_signature(secret, signature, data) ==
    LET stripped == StripPrefix(signature, Sha256Prefix)
    IN  IF ~stripped.some THEN FALSE
        ELSE LET decoded == HexDecode(stripped.rest)
             IN  IF decoded.ok THEN MacVerify(secret, data, decoded.bytes)
                 ELSE FALSE

\* the header value a well-behaved sender computes for a body
Sign(secret, data) == Sha256Prefix \o HexEncode(Mac(secret, data))

(***************************************************************************)
(* Configuration (config.rs) and what the senders can put in a request.    *)
(***************************************************************************)

\* the number of requests the server takes during one run
MaxRequests == 2

\* the request tasks that can be in flight at the same time
NumTasks == 2

Tasks == 1..NumTasks

\* ProloloConfig::github_secret ("s3") and a key the server does not hold
GitHubSecret == <<115, 51>>
ForeignSecret == <<115, 52>>

\* ProloloConfig::prolosite_secret ("tok")
ProlositeSecret == <<116, 111, 107>>

\* tokens a sender may declare: the secret, a proper prefix of it, the secret
\* with one more character, the secret in upper case
Tokens == {ProlositeSecret, <<116, 111>>, <<116, 111, 107, 33>>, <<84, 79, 75>>}

\* the values of the Authorization headers of a request, in order
AuthorizationHeaders ==
    {<<>>} \cup {<<t>> : t \in Tokens}
           \cup {<<ProlositeSecret, t>> : t \in {ProlositeSecret, <<116, 111>>}}

\* ProloloConfig::matrix_rooms: room name -> RoomConfig
matrix_rooms ==
    [name \in {"site", "dev", "general"} |->
        CASE name = "site"    -> [id |-> "!site",    default |-> FALSE]
          [] name = "dev"     -> [id |-> "!dev",     default |-> FALSE]
          [] name = "general" -> [id |-> "!general", default |-> TRUE]]

\* ProloloConfig::destinations, in configured order; a regex is given by the
\* set of the repository names (among those of the model) it matches
destinations ==
    << [room |-> "site",    regex |-> {"prologin/site"}],
       [room |-> "dev",     regex |-> {"prologin/camisole", "prologin/site"}],
       [room |-> "nowhere", regex |-> {"prologin/ghost"}] >>

\* ProloloConfig::generic_endpoints: endpoint name -> GenericEndpoint; the
\* secret of "ci" is "gs"
generic_endpoints ==
    [name \in {"ci"} |-> [room |-> "dev", secret |-> <<103, 115>>]]

\* the endpoint names a sender may put in the path of a generic request
GenericEndpointNames == {"ci", "doesnotexist"}

\* the values of the Authorization headers of a generic request, in order:
\* none, the secret of "ci", another token, the secret twice
GenericAuthorizationHeaders ==
    {<<>>, <<<<103, 115>>>>, <<<<103, 116>>>>, <<<<103, 115>>, <<103, 115>>>>}

\* the rooms the Matrix client has joined
JoinedRooms == {"!site", "!general"}

NoRepo == "-"

(***************************************************************************)
(* Webhook payloads.  A body is its raw bytes (what the MAC is computed    *)
(* over) and the JSON document the bytes spell; `shape` names the event    *)
(* struct whose required fields the document has ("malformed": none).      *)
(***************************************************************************)

\* the fields of a payload that decide what its handler does: action, ref_type
\* (create), assignee present (issues, pull request), changes ("null", or which
\* of title and body changed) and milestone present (issues), commit_id (commit
\* comment; the id of the head commit of a push), repository.full_name,
\* team.privacy (membership), pull_request_review_id present (review comment),
\* review.state (review), merged (pull request: "null", "true", "false"),
\* invitation, user and membership present (organization), the number of
\* commits and whether ref starts with refs/heads/ (push)
NullCommitId == <<0>>

Doc(shape, action, repo) ==
    [shape |-> shape, action |-> action, ref_type |-> "-", assignee |-> FALSE,
     changes |-> "null", milestone |-> FALSE, commit_id |-> NullCommitId,
     repo |-> repo, privacy |-> "closed", review_id |-> FALSE,
     state |-> "approved", merged |-> "null", invitation |-> FALSE,
     user |-> FALSE, membership |-> FALSE, commits |-> 0, branch_ref |-> TRUE]

GitHubBodies ==
    { [raw |-> <<123, 1>>,
       doc |-> [Doc("create", "", "prologin/site") EXCEPT !.ref_type = "tag"]],
      [raw |-> <<123, 2>>,
       doc |-> Doc("issues", "labeled", "prologin/site")],
      [raw |-> <<123, 3>>,
       doc |-> Doc("issues", "assigned", "prologin/site")],
      [raw |-> <<123, 4>>,
       doc |-> Doc("issues", "opened", "prologin/camisole")],
      [raw |-> <<123, 5>>,
       doc |-> [Doc("commit_comment", "", "prologin/site")
                    EXCEPT !.commit_id = <<97, 98, 99>>]],
      [raw |-> <<123, 6>>,
       doc |-> [Doc("commit_comment", "", "prologin/ghost")
                    EXCEPT !.commit_id = <<48, 49, 50, 51, 52, 53, 54, 55>>]],
      [raw |-> <<123>>,
       doc |-> Doc("malformed", "", NoRepo)] }

\* the values of the X-GitHub-Event headers of a request, in order
EventTypeHeaders ==
    { <<>>, <<"create">>, <<"issues">>, <<"commit_comment">>, <<"deployment">>,
      <<"issues", "create">> }

\* the declared signatures a sender may put in X-Hub-Signature-256 for a body:
\* the right one, the right one in upper-case hex, the hex without the
\* prefix, a non-hex tail, and the MAC under another key
UpperHex(s) == [i \in 1..Len(s) |-> IF s[i] >= 97 /\ s[i] <= 102 THEN s[i] - 32 ELSE s[i]]

Signatures(raw) ==
    { Sign(GitHubSecret, raw),
      Sha256Prefix \o UpperHex(HexEncode(Mac(GitHubSecret, raw))),
      HexEncode(Mac(GitHubSecret, raw)),
      Sha256Prefix \o <<122, 122, 48, 48>>,
      Sign(ForeignSecret, raw) }

\* what a sender may deliver: every body with its right signature, and the
\* tag-creation body with each of the other declared signatures
GitHubDeliveries ==
    { [body |-> body, signature |-> Sign(GitHubSecret, body.raw)] :
        body \in GitHubBodies }
    \cup
    UNION { { [body |-> body, signature |-> signature] :
                signature \in Signatures(body.raw) } :
            body \in {b \in GitHubBodies : b.doc.shape = "create"} }

\* bodies of the website endpoints: a payload of the endpoint's struct, JSON
\* of another structure, and text that is no JSON
ProlositeBodies == {"payload", "other_structure", "not_json"}

\* the website routes of the model; new_school and impersonate are built like
\* these two
ProlositeEndpoints == {"django", "forum"}

(***************************************************************************)
(* Request guards and routes (webhooks/).  A guard yields the status it    *)
(* fails with, or 0 when it lets the request through.                      *)
(***************************************************************************)

\* the names serde accepts for GitHubEventType (snake_case of the variants)
KnownEventTypes ==
    {"commit_comment", "create", "fork", "issue_comment", "issues", "membership",
     "organization", "ping", "pull_request", "pull_request_review",
     "pull_request_review_comment", "push", "repository", "unknown"}

\* GitHubEventType::from_request: exactly one X-GitHub-Event header is needed;
\* a name serde does not know becomes GitHubEventType::Unknown
GitHubEventType_from_request(event_types) ==
    IF Len(event_types) # 1 THEN [status |-> 400, event_type |-> "-"]
    ELSE [status |-> 0,
          event_type |-> IF event_types[1] \in KnownEventTypes
                         THEN event_types[1] ELSE "unknown"]

\* SignedGitHubPayload::from_data before the body is read: content type, then
\* the number of signature headers
SignedGitHubPayload_headers(json_ct, nsig) ==
    IF ~json_ct THEN 400 ELSE IF nsig # 1 THEN 400 ELSE 0

\* a mutant of the body check that accepts every body that fits the limit
SignedGitHubPayload_unchecked(too_large, signature, raw) ==
    IF too_large THEN 413 ELSE 0

\* SignedGitHubPayload::from_data once the body is read: the size limit, then
\* the signature
SignedGitHubPayload_body(too_large, signature, raw) ==
    IF too_large THEN 413
    ELSE IF ~validate_signature(GitHubSecret, signature, raw) THEN 400
    ELSE 0

\* GitHubEventType::parse_payload: Unknown bails; every other type is handed to
\* serde, which succeeds when the document has the fields of that type's struct
parse_payload(event_type, doc) ==
    IF event_type = "unknown" THEN FALSE ELSE doc.shape = event_type

\* github_webhook: the status it answers with and whether it put the event on
\* the channel; send(..).expect(..) panics when the receiver is gone, which
\* the server answers with 500
github_webhook(event_type, doc, rx_alive) ==
    IF ~parse_payload(event_type, doc) THEN [status |-> 400, send |-> FALSE]
    ELSE IF rx_alive THEN [status |-> 200, send |-> TRUE]
    ELSE [status |-> 500, send |-> FALSE]

\* a mutant of the token guard that accepts any token starting with the secret
AuthorizationHeader_prefix_match(authorization) ==
    IF Len(authorization) # 1 THEN 400
    ELSE IF ~StripPrefix(authorization[1], ProlositeSecret).some THEN 400
    ELSE 0

\* AuthorizationHeader::from_request (prolosite.rs): exactly one Authorization
\* header, equal to the secret
AuthorizationHeader_from_request(authorization) ==
    IF Len(authorization) # 1 THEN 400
    ELSE IF authorization[1] # ProlositeSecret THEN 400
    ELSE 0

\* get_auth_token (webhooks.rs)
get_auth_token(authorization) ==
    IF Len(authorization) # 1 THEN [some |-> FALSE, token |-> <<>>]
    ELSE [some |-> TRUE, token |-> authorization[1]]

\* ProlositeAuthorize::from_request (webhooks.rs): missing_auth!, then
\* authorize_or_error! against ProloloConfig::prolosite_secret
ProlositeAuthorize_from_request(authorization) ==
    LET token == get_auth_token(authorization)
    IN  IF ~token.some THEN 400
        ELSE IF token.token # ProlositeSecret THEN 400
        ELSE 0

\* the Json<T> data guard of the website routes
Json_from_data(body) ==
    CASE body = "not_json"        -> 400
      [] body = "other_structure" -> 422
      [] OTHER                    -> 0

\* django, forum, new_school, impersonate: send(..).expect(..), then 200
prolosite_route(rx_alive) ==
    IF rx_alive THEN [status |-> 200, send |-> TRUE]
    ELSE [status |-> 500, send |-> FALSE]

\* GenericAuthorize::from_request (webhooks.rs): missing_auth! when there is
\* not exactly one Authorization header; then the endpoint named by the path
\* is looked up (NotFound when it is not configured); then
\* authorize_or_error! against the secret of the endpoint
GenericAuthorize_from_request(authorization, endpoint) ==
    LET token == get_auth_token(authorization)
    IN  IF ~token.some THEN 400
        ELSE IF endpoint \notin DOMAIN generic_endpoints THEN 404
        ELSE IF token.token # generic_endpoints[endpoint].secret THEN 400
        ELSE 0

\* generic: send(..).expect(..), then 200
generic(rx_alive) ==
    IF rx_alive THEN [status |-> 200, send |-> TRUE]
    ELSE [status |-> 500, send |-> FALSE]

(***************************************************************************)
(* The handlers (bot/github.rs, bot/prolosite.rs) as far as they decide    *)
(* between a response, no response and a panic, and the routing of a       *)
(* response to a room (config.rs).                                         *)
(***************************************************************************)

SHORT_HASH_LENGTH == 7

Some(repo) == [kind |-> "some", repo |-> repo]
None == [kind |-> "none", repo |-> NoRepo]
Panic == [kind |-> "panic", repo |-> NoRepo]

\* handle_commit_comment: expect() on the commit id, then the slice
\* commit_id[..SHORT_HASH_LENGTH], which panics on a shorter id
handle_commit_comment(event) ==
    IF event.commit_id = NullCommitId THEN Panic
    ELSE IF Len(event.commit_id) < SHORT_HASH_LENGTH THEN Panic
    ELSE Some(event.repo)

\* handle_create
handle_create(event) ==
    IF event.ref_type = "branch" THEN None ELSE Some(event.repo)

\* handle_fork
handle_fork(event) == Some(event.repo)

\* handle_issue_comment
handle_issue_comment(event) ==
    CASE event.action = "created" -> Some(event.repo)
      [] event.action \in {"edited", "deleted"} -> None
      [] OTHER -> None

\* a mutant of handle_issues that announces every issues event
handle_issues_verbose(event) == Some(event.repo)

\* handle_issues
handle_issues(event) ==
    CASE event.action \in {"assigned", "unassigned"} ->
            IF event.assignee THEN Some(event.repo) ELSE Panic
      [] event.action \in {"labeled", "unlabeled"} -> None
      [] event.action \in {"opened", "deleted", "pinned", "unpinned", "reopened",
                           "closed", "locked", "unlocked", "transferred"} ->
            Some(event.repo)
      [] event.action = "edited" ->
            IF event.changes = "null" THEN Panic
            ELSE IF event.changes = "empty" THEN None
            ELSE Some(event.repo)
      [] event.action = "milestoned" ->
            IF event.milestone THEN Some(event.repo) ELSE Panic
      [] event.action = "demilestoned" -> Some(event.repo)
      [] OTHER -> None

\* a mutant of handle_membership that does not look at the privacy of the team
handle_membership_leaky(event) ==
    IF event.action \in {"added", "removed"} THEN Some(NoRepo) ELSE None

\* handle_membership: nothing for a secret team; the response names no repo
handle_membership(event) ==
    IF event.privacy = "secret" THEN None
    ELSE IF event.action \in {"added", "removed"} THEN Some(NoRepo)
    ELSE None

\* handle_organization: expect() on the invitation and the user, or on the
\* membership; the response names no repo
handle_organization(event) ==
    CASE event.action = "member_invited" ->
            IF ~event.invitation THEN Panic
            ELSE IF ~event.user THEN Panic
            ELSE Some(NoRepo)
      [] event.action \in {"member_added", "member_removed"} ->
            IF event.membership THEN Some(NoRepo) ELSE Panic
      [] OTHER -> None

\* handle_ping: the repository is optional
handle_ping(event) == Some(event.repo)

\* a mutant of handle_pull_request that announces the label and review
\* request removal actions as well
handle_pull_request_verbose(event) ==
    CASE event.action \in {"assigned", "unassigned"} ->
            IF event.assignee THEN Some(event.repo) ELSE Panic
      [] event.action \in {"review_requested", "labeled", "unlabeled",
                           "review_requested_removed", "opened", "edited",
                           "reopened"} -> Some(event.repo)
      [] event.action = "closed" ->
            IF event.merged = "null" THEN Panic ELSE Some(event.repo)
      [] OTHER -> None

\* handle_pull_request
handle_pull_request(event) ==
    CASE event.action \in {"assigned", "unassigned"} ->
            IF event.assignee THEN Some(event.repo) ELSE Panic
      [] event.action = "review_requested" -> Some(event.repo)
      [] event.action \in {"labeled", "unlabeled", "review_requested_removed"} ->
            None
      [] event.action \in {"opened", "edited", "reopened"} -> Some(event.repo)
      [] event.action = "closed" ->
            IF event.merged = "null" THEN Panic ELSE Some(event.repo)
      [] OTHER -> None

\* handle_pull_request_review: the state of the review is looked at first
\* (the states of the model are in lower case)
handle_pull_request_review(event) ==
    IF event.state \notin {"approved", "changes_requested", "commented"} THEN None
    ELSE CASE event.action = "submitted" -> Some(event.repo)
           [] event.action = "edited" -> None
           [] event.action = "dismissed" -> Some(event.repo)
           [] OTHER -> None

\* handle_pull_request_review_comment
handle_pull_request_review_comment(event) ==
    IF event.review_id THEN None
    ELSE CASE event.action = "created" -> Some(event.repo)
           [] event.action \in {"edited", "deleted"} -> None
           [] OTHER -> None

\* handle_push: nothing without commits; expect() on the head commit, the
\* slice id[..SHORT_HASH_LENGTH], expect() on the refs/heads/ prefix
handle_push(event) ==
    IF event.commits = 0 THEN None
    ELSE IF event.commit_id = NullCommitId THEN Panic
    ELSE IF Len(event.commit_id) < SHORT_HASH_LENGTH THEN Panic
    ELSE IF ~event.branch_ref THEN Panic
    ELSE Some(event.repo)

\* a mutant of handle_repository that panics on an action it does not know
handle_repository_strict(event) ==
    CASE event.action \in {"created", "deleted", "archived", "unarchived",
                           "transferred", "publicized", "privatized"} ->
            Some(event.repo)
      [] event.action = "renamed" ->
            IF event.changes = "null" THEN Panic ELSE Some(event.repo)
      [] event.action = "edited" -> None
      [] OTHER -> Panic

\* handle_repository: expect() on the changes of a rename
handle_repository(event) ==
    CASE event.action \in {"created", "deleted", "archived", "unarchived",
                           "transferred", "publicized", "privatized"} ->
            Some(event.repo)
      [] event.action = "renamed" ->
            IF event.changes = "null" THEN Panic ELSE Some(event.repo)
      [] event.action = "edited" -> None
      [] OTHER -> None

\* handle_github_event
handle_github_event(event) ==
    CASE event.shape = "commit_comment" -> handle_commit_comment(event)
      [] event.shape = "create"         -> handle_create(event)
      [] event.shape = "fork"           -> handle_fork(event)
      [] event.shape = "issue_comment"  -> handle_issue_comment(event)
      [] event.shape = "issues"         -> handle_issues(event)
      [] event.shape = "membership"     -> handle_membership(event)
      [] event.shape = "organization"   -> handle_organization(event)
      [] event.shape = "ping"           -> handle_ping(event)
      [] event.shape = "pull_request"   -> handle_pull_request(event)
      [] event.shape = "pull_request_review" -> handle_pull_request_review(event)
      [] event.shape = "pull_request_review_comment" ->
            handle_pull_request_review_comment(event)
      [] event.shape = "push"           -> handle_push(event)
      [] event.shape = "repository"     -> handle_repository(event)

\* handle_prolosite_event: each of the four handlers answers, with no repo
handle_prolosite_event(event) == Some(NoRepo)

\* handle_generic_event: always a response, with no repo
handle_generic_event(event) == Some(NoRepo)

Ok(room_id) == [ok |-> TRUE, room_id |-> room_id]
Err(why) == [ok |-> FALSE, room_id |-> why]

\* the configuration the server runs with
Config == [matrix_rooms |-> matrix_rooms, destinations |-> destinations]

\* ProloloConfig::default_room on a configuration: the room flagged default
\* (the configurations of the model flag one room at most)
ProloloConfig_default_room(self) ==
    IF \E name \in DOMAIN self.matrix_rooms : self.matrix_rooms[name].default
    THEN Ok(self.matrix_rooms[CHOOSE name \in DOMAIN self.matrix_rooms :
                                 self.matrix_rooms[name].default].id)
    ELSE Err("no default room")

\* Iterator::find over the destinations: the first one whose regex matches
RECURSIVE FindDestination(_, _)
FindDestination(dests, repo) ==
    IF dests = <<>> THEN [some |-> FALSE, dest |-> [room |-> "-", regex |-> {}]]
    ELSE IF repo \in Head(dests).regex THEN [some |-> TRUE, dest |-> Head(dests)]
    ELSE FindDestination(Tail(dests), repo)

\* a mutant of the search that keeps the last destination that matches
RECURSIVE FindLastDestination(_, _)
FindLastDestination(dests, repo) ==
    IF dests = <<>> THEN [some |-> FALSE, dest |-> [room |-> "-", regex |-> {}]]
    ELSE LET later == FindLastDestination(Tail(dests), repo)
         IN  IF later.some THEN later
             ELSE IF repo \in Head(dests).regex
                  THEN [some |-> TRUE, dest |-> Head(dests)]
                  ELSE later

ProloloConfig_find_room_for_last(self, repo) ==
    LET matched == FindLastDestination(self.destinations, repo)
    IN  IF matched.some
        THEN IF matched.dest.room \in DOMAIN self.matrix_rooms
             THEN Ok(self.matrix_rooms[matched.dest.room].id)
             ELSE Err("unknown room")
        ELSE ProloloConfig_default_room(self)

\* a mutant of find_room_for that falls back on the default room when the
\* room of the matching destination is not bound
ProloloConfig_find_room_for_lenient(self, repo) ==
    LET matched == FindDestination(self.destinations, repo)
    IN  IF matched.some /\ matched.dest.room \in DOMAIN self.matrix_rooms
        THEN Ok(self.matrix_rooms[matched.dest.room].id)
        ELSE ProloloConfig_default_room(self)

\* ProloloConfig::find_room_for on a configuration: the first destination, in
\* configured order, whose regex matches; its room must be bound in
\* matrix_rooms; the default room when no destination matches
ProloloConfig_find_room_for(self, repo) ==
    LET matched == FindDestination(self.destinations, repo)
    IN  IF matched.some
        THEN IF matched.dest.room \in DOMAIN self.matrix_rooms
             THEN Ok(self.matrix_rooms[matched.dest.room].id)
             ELSE Err("unknown room")
        ELSE ProloloConfig_default_room(self)

\* a mutant of the choice of the room that falls back on the first room of
\* the configuration when there is no repo
room_of_response_any(self, repo) ==
    IF repo = NoRepo
    THEN Ok(self.matrix_rooms[CHOOSE name \in DOMAIN self.matrix_rooms : TRUE].id)
    ELSE ProloloConfig_find_room_for(self, repo)

\* handle_event: repo.map_or_else(|| config.default_room(),
\* |repo| config.find_room_for(repo))
room_of_response(self, repo) ==
    IF repo = NoRepo THEN ProloloConfig_default_room(self)
    ELSE ProloloConfig_find_room_for(self, repo)

\* ProloloConfig::default_room and ProloloConfig::find_room_for of the server
default_room == ProloloConfig_default_room(Config)

find_room_for(repo) == ProloloConfig_find_room_for(Config, repo)

\* Prololo::handle_event up to the call of room.send: the handler, then the
\* room of the response, then the joined room of the client
handle_event(event, client, config) ==
    LET response == CASE event.source = "github" ->
                            handle_github_event(event.doc)
                      [] event.source = "generic" ->
                            handle_generic_event(event.doc)
                      [] OTHER -> handle_prolosite_event(event.doc)
    IN  CASE response.kind = "panic" -> [result |-> "panic", room |-> "-"]
          [] response.kind = "none"  -> [result |-> "none",  room |-> "-"]
          [] OTHER ->
               LET room == room_of_response(config, response.repo)
               IN  IF ~room.ok THEN [result |-> "routing_error", room |-> "-"]
                   ELSE IF room.room_id \notin client
                        THEN [result |-> "not_joined", room |-> "-"]
                        ELSE [result |-> "send", room |-> room.room_id]

\* the results of handle_event that are an Err the loop logs
ErrorResults == {"routing_error", "not_joined", "send_error"}

\* a mutant of the loop that leaves on an Err
receive_events_break_on_err(result) ==
    IF result = "panic" THEN "panicked"
    ELSE IF result \in ErrorResults THEN "exited"
    ELSE "recv"

\* Prololo::receive_events after handle_event: an Err is logged and the loop
\* goes on; a panic unwinds the task
receive_events_after(result) ==
    IF result = "panic" THEN "panicked" ELSE "recv"

\* a mutant of the receive that leaves the event it yields on the channel
recv_peek(buffer) == [event |-> Head(buffer), rest |-> buffer]

\* a mutant of the receive that takes the newest event of the channel
recv_newest(buffer) ==
    [event |-> buffer[Len(buffer)], rest |-> SubSeq(buffer, 1, Len(buffer) - 1)]

\* UnboundedReceiver::recv on a channel that holds events: the oldest one
recv(buffer) == [event |-> Head(buffer), rest |-> Tail(buffer)]

(***************************************************************************)
(* The message builder (bot/message_builder.rs).  A string is the sequence *)
(* of its UTF-8 bytes; a URL is given by the bytes it is displayed as.     *)
(***************************************************************************)

\* the most operations applied to one builder before it is built
MaxOps == 3

\* SEPARATOR, the dot operator U+22C5
SEPARATOR == <<226, 139, 133>>

\* the texts a handler may write: each reserved character, a plain letter, a
\* two-byte letter, the empty text, and texts that mix them
Texts ==
    { <<>>, <<97>>, <<38>>, <<60>>, <<62>>, <<34>>, <<39>>, <<195, 169>>,
      <<97, 38, 98>>, <<60, 195, 169, 62>>, <<34, 39>> }

\* the texts a handler may give to link and main_link
LinkTexts == { <<97>>, <<60>>, <<60, 195, 169, 62>> }

\* the names a handler may give to tag
TagTexts == { <<114, 38, 100>> }

\* an emoji given to tag (the fire sign), or none
NoEmoji == <<>>
Emojis == { NoEmoji, <<240, 159, 148, 165>> }

\* the URLs of the model, as Url displays them
Urls == { <<117>>, <<118>> }

\* the colors of the model
Colors == { <<35, 102, 48, 48>> }

\* Option<Url>::None
NoUrl == <<>>

\* MessageBuilder::new
MessageBuilder_new ==
    [html |-> <<>>, plain |-> <<>>, style_stack |-> <<>>, url |-> NoUrl]

\* Style::close
Style_close(style) ==
    CASE style = "Bold" -> <<60, 47, 98, 62>>
      [] style = "Code" -> <<60, 47, 99, 111, 100, 101, 62>>
      [] style = "Span" -> <<60, 47, 115, 112, 97, 110, 62>>

\* a mutant of the escapes that lets the apostrophe through
escaped_without_apostrophe(c) ==
    CASE c = 62 -> [some |-> TRUE, text |-> <<38, 103, 116, 59>>]
      [] c = 60 -> [some |-> TRUE, text |-> <<38, 108, 116, 59>>]
      [] c = 38 -> [some |-> TRUE, text |-> <<38, 97, 109, 112, 59>>]
      [] c = 34 -> [some |-> TRUE, text |-> <<38, 113, 117, 111, 116, 59>>]
      [] OTHER  -> [some |-> FALSE, text |-> <<>>]

\* the match of write_str: the entity of a character that has a meaning in
\* HTML (> < & ' "), or none (`continue`)
escaped(c) ==
    CASE c = 62 -> [some |-> TRUE, text |-> <<38, 103, 116, 59>>]
      [] c = 60 -> [some |-> TRUE, text |-> <<38, 108, 116, 59>>]
      [] c = 38 -> [some |-> TRUE, text |-> <<38, 97, 109, 112, 59>>]
      [] c = 39 -> [some |-> TRUE, text |-> <<38, 35, 51, 57, 59>>]
      [] c = 34 -> [some |-> TRUE, text |-> <<38, 113, 117, 111, 116, 59>>]
      [] OTHER  -> [some |-> FALSE, text |-> <<>>]

\* a byte that starts a character (char_indices stops at these)
IsCharStart(byte) == byte < 128 \/ byte >= 192

\* the loop of write_str from byte offset i on: `last` is the offset after
\* the last escaped character; the text between two escaped characters is
\* copied as it is, and so is the text after the last one
RECURSIVE write_str_loop(_, _, _, _)
write_str_loop(s, i, last, html) ==
    IF i >= Len(s)
    THEN IF last < Len(s) THEN html \o SubSeq(s, last + 1, Len(s)) ELSE html
    ELSE IF ~IsCharStart(s[i + 1]) THEN write_str_loop(s, i + 1, last, html)
    ELSE IF escaped(s[i + 1]).some
         THEN write_str_loop(s, i + 1, i + 1,
                             html \o SubSeq(s, last + 1, i)
                                  \o escaped(s[i + 1]).text)
         ELSE write_str_loop(s, i + 1, last, html)

\* <MessageBuilder as fmt::Write>::write_str
write_str(self, s) ==
    [self EXCEPT !.plain = self.plain \o s,
                 !.html = write_str_loop(s, 0, 0, self.html)]

\* write!(self, ..): fmt::write hands the pieces of the format to write_str,
\* one after the other
RECURSIVE write_fmt(_, _)
write_fmt(self, pieces) ==
    IF pieces = <<>> THEN self
    ELSE write_fmt(write_str(self, Head(pieces)), Tail(pieces))

\* MessageBuilder::bold
bold(self) ==
    [self EXCEPT !.html = self.html \o <<60, 98, 62>>,
                 !.style_stack = Append(self.style_stack, "Bold")]

\* MessageBuilder::code
code(self) ==
    [self EXCEPT !.html = self.html \o <<60, 99, 111, 100, 101, 62>>,
                 !.style_stack = Append(self.style_stack, "Code")]

\* MessageBuilder::color: the color goes into the attribute as it is
color(self, c) ==
    [self EXCEPT !.html = self.html \o <<60, 115, 112, 97, 110, 32, 115, 116, 121, 108, 101, 61, 34, 99, 111, 108, 111, 114, 58, 32>> \o c \o <<34, 62>>,
                 !.style_stack = Append(self.style_stack, "Span")]

\* a mutant of close_last that closes the style opened first
close_last_oldest(self) ==
    [self EXCEPT !.html = self.html \o Style_close(self.style_stack[1]),
                 !.style_stack = Tail(self.style_stack)]

\* MessageBuilder::close_last on a builder with an open style
close_last(self) ==
    [self EXCEPT !.html = self.html
                            \o Style_close(self.style_stack[Len(self.style_stack)]),
                 !.style_stack = SubSeq(self.style_stack, 1,
                                        Len(self.style_stack) - 1)]

\* MessageBuilder::close_styles
RECURSIVE close_styles(_)
close_styles(self) ==
    IF self.style_stack = <<>> THEN self ELSE close_styles(close_last(self))

\* MessageBuilder::tag
tag(self, name, emoji) ==
    LET opened == write_fmt(bold(self), << <<91>> >>)
        marked == IF emoji # NoEmoji
                  THEN write_fmt(opened, << emoji, <<32>> >>)
                  ELSE opened
    IN  close_last(write_fmt(marked, << name, <<93>> >>))

\* MessageBuilder::link: the text goes into plain and, as it is, into the
\* anchor
link(self, text, href) ==
    [self EXCEPT !.plain = self.plain \o text,
                 !.html = self.html \o <<60, 97, 32, 104, 114, 101, 102, 61, 34>> \o href \o <<34, 62>> \o text \o <<60, 47, 97, 62>>]

\* a mutant of main_link that keeps the first URL recorded
main_link_keep_first(self, text, href) ==
    [link(self, text, href) EXCEPT !.url = IF self.url = NoUrl THEN href
                                           ELSE self.url]

\* MessageBuilder::main_link
main_link(self, text, href) ==
    [link(self, text, href) EXCEPT !.url = href]

\* MessageBuilder::build: the plain text and the HTML of the message
build(self) ==
    [plain |-> IF self.url # NoUrl
               THEN self.plain \o <<32>> \o SEPARATOR \o <<32>> \o self.url
               ELSE self.plain,
     html |-> self.html]

(***************************************************************************)
(* State.                                                                  *)
(***************************************************************************)
VARIABLES
    task,            \* the request tasks of the HTTP server
    arrived,         \* requests taken so far
    lastResponse,    \* the latest response sent, with what its request held
    events,          \* the buffer of the unbounded channel
    sender_alive,    \* the server still holds the EventSender
    receiver_alive,  \* the consumer task still holds the receiver
    consumer,        \* the consumer task: where it is, the event it handles
    enqueued,        \* events put on the channel so far
    startLog,        \* ids of the events the consumer took, in order
    doneLog,         \* the events the consumer finished, with the result
    sendLog,         \* ids of the events for which room.send was called
    lost,            \* events dropped with the receiver
    vsSecret, vsData, vsSignature, vsValid, vsFlip,
                     \* a signature check and the bit changed before it
    rtConfig, rtRepo, rtRoom,
                     \* a configuration, a response's repo and the room found
    ajInvitation,    \* the invitation the membership handler is working on
    ajCount,         \* invitations received so far
    mbBuilder,       \* a message builder a handler is filling
    mbOps,           \* operations applied to it so far
    mbLast,          \* the last operation, its arguments, the builder before it
    mbOut,           \* the message built from it
    mbMainLinks,     \* the URLs given to main_link so far
    joined,          \* the rooms the Matrix client has joined
    scInput,         \* a text to shorten and the length it is shortened to
    scOut            \* the text shortened, and the shortened text shortened

pipelineVars == <<task, arrived, lastResponse, events, sender_alive,
                  receiver_alive, consumer, enqueued, startLog, doneLog,
                  sendLog, lost>>
sigVars == <<vsSecret, vsData, vsSignature, vsValid, vsFlip>>
routeVars == <<rtConfig, rtRepo, rtRoom>>
joinVars == <<ajInvitation, ajCount>>
builderVars == <<mbBuilder, mbOps, mbLast, mbOut, mbMainLinks>>
clientVars == <<joined>>
shortenVars == <<scInput, scOut>>
vars == <<task, arrived, lastResponse, events, sender_alive, receiver_alive,
          consumer, enqueued, startLog, doneLog, sendLog, lost,
          vsSecret, vsData, vsSignature, vsValid, vsFlip,
          rtConfig, rtRepo, rtRoom, ajInvitation, ajCount,
          mbBuilder, mbOps, mbLast, mbOut, mbMainLinks, joined,
          scInput, scOut>>

\* what an action of the server and the consumer leaves alone
asideVars == <<sigVars, routeVars, joinVars, builderVars, clientVars, shortenVars>>
\* what a signature check leaves alone
nonSigVars == <<pipelineVars, routeVars, joinVars, builderVars, clientVars,
                shortenVars>>
\* what a resolution of a room leaves alone
nonRouteVars == <<pipelineVars, sigVars, joinVars, builderVars, clientVars,
                  shortenVars>>
\* what the membership handler leaves alone
nonJoinVars == <<pipelineVars, sigVars, routeVars, builderVars, clientVars,
                 shortenVars>>
\* what an operation on a message builder leaves alone
nonBuilderVars == <<pipelineVars, sigVars, routeVars, joinVars, clientVars,
                    shortenVars>>
\* what a room joined by the client leaves alone
nonClientVars == <<pipelineVars, sigVars, routeVars, joinVars, builderVars,
                   shortenVars>>
\* what the shortening of a text leaves alone
nonShortenVars == <<pipelineVars, sigVars, routeVars, joinVars, builderVars,
                    clientVars>>

\* what the guards have read of a request; a field keeps its default until
\* the guard that reads it has run
NoInputs ==
    [event_types |-> <<>>, json_ct |-> FALSE, nsig |-> 0, too_large |-> FALSE,
     signature |-> <<>>, raw |-> <<>>, shape |-> "-", authorization |-> <<>>,
     body |-> "-", generic_endpoint |-> "-"]

IdleTask == [pc |-> "idle", endpoint |-> "-", event_type |-> "-", in |-> NoInputs]

NoResponse == [endpoint |-> "-", stage |-> "-", status |-> 0, enq |-> 0,
               in |-> NoInputs]

NoEvent == [id |-> 0, source |-> "-", doc |-> Doc("-", "", NoRepo),
            credential |-> <<>>, raw |-> <<>>]

IdleConsumer == [pc |-> "recv", event |-> NoEvent, room |-> "-"]

NoFlip == [what |-> "none", byte |-> 0, bit |-> 0]

InitPipeline ==
    /\ task = [t \in Tasks |-> IdleTask]
    /\ arrived = 0
    /\ lastResponse = NoResponse
    /\ events = <<>>
    /\ sender_alive = TRUE
    /\ receiver_alive = TRUE
    /\ consumer = IdleConsumer
    /\ enqueued = 0
    /\ startLog = <<>>
    /\ doneLog = <<>>
    /\ sendLog = <<>>
    /\ lost = <<>>

InitNoSig ==
    /\ vsSecret = <<>>
    /\ vsData = <<>>
    /\ vsSignature = <<>>
    /\ vsValid = FALSE
    /\ vsFlip = NoFlip

NoRoom == [ok |-> FALSE, room_id |-> "-"]

InitNoRoute ==
    /\ rtConfig = Config
    /\ rtRepo = NoRepo
    /\ rtRoom = NoRoom

\* no invitation received yet
NoInvitation ==
    [pc |-> "idle", room_id |-> "-", status |-> "-", delay |-> 0,
     attempts |-> 0, slept |-> <<>>, error |-> FALSE, logged_joined |-> FALSE]

InitNoJoin ==
    /\ ajInvitation = NoInvitation
    /\ ajCount = 0

\* no operation applied yet
NoOp == [op |-> "new", text |-> <<>>, href |-> NoUrl, before |-> MessageBuilder_new]

\* the message is not built yet
NotBuilt == [status |-> "building", plain |-> <<>>, html |-> <<>>]

InitNoBuilder ==
    /\ mbBuilder = MessageBuilder_new
    /\ mbOps = 0
    /\ mbLast = NoOp
    /\ mbOut = NotBuilt
    /\ mbMainLinks = <<>>

\* the rooms the client has joined when the server starts
InitClient == joined = JoinedRooms

\* no text given yet
NoText == [fn |-> "-", content |-> <<>>, max_length |-> 0]

\* nothing shortened yet
NotShortened == [applied |-> 0, once |-> <<>>, twice |-> <<>>]

InitNoShorten ==
    /\ scInput = NoText
    /\ scOut = NotShortened

Init ==
    /\ InitPipeline /\ InitNoSig /\ InitNoRoute /\ InitNoJoin /\ InitNoBuilder
    /\ InitClient /\ InitNoShorten

(***************************************************************************)
(* The HTTP side: one task per request.  The guards read the headers,      *)
(* the data guard then awaits the body; what follows the body (signature   *)
(* or JSON check, the route, the send on the channel) runs without         *)
(* suspending.                                                             *)
(***************************************************************************)

\* the task answers and ends
Respond(t, endpoint, stage, status, in, enq) ==
    /\ lastResponse' = [endpoint |-> endpoint, stage |-> stage, status |-> status,
                        enq |-> enq, in |-> in]
    /\ task' = [task EXCEPT ![t] = IdleTask]

\* UnboundedSender::send
Send(event) ==
    /\ events' = Append(events, [event EXCEPT !.id = enqueued + 1])
    /\ enqueued' = enqueued + 1

\* POST /api/webhooks/github: GitHubEventType::from_request, then
\* SignedGitHubPayload::from_data as far as the read of the body
GitHubRequest(t) ==
    /\ task[t].pc = "idle"
    /\ sender_alive
    /\ arrived < MaxRequests
    /\ arrived' = arrived + 1
    /\ \E event_types \in EventTypeHeaders, json_ct \in BOOLEAN, nsig \in 0..2 :
         LET guard == GitHubEventType_from_request(event_types)
             in1 == [NoInputs EXCEPT !.event_types = event_types]
             in2 == [in1 EXCEPT !.json_ct = json_ct]
             in3 == [in2 EXCEPT !.nsig = nsig]
         IN  IF guard.status # 0
             THEN Respond(t, "github", "event_type", guard.status, in1, 0)
             ELSE IF ~json_ct
             THEN Respond(t, "github", "content_type",
                          SignedGitHubPayload_headers(json_ct, nsig), in2, 0)
             ELSE IF SignedGitHubPayload_headers(json_ct, nsig) # 0
             THEN Respond(t, "github", "signature_count",
                          SignedGitHubPayload_headers(json_ct, nsig), in3, 0)
             ELSE /\ task' = [task EXCEPT ![t] =
                                [pc |-> "github_body", endpoint |-> "github",
                                 event_type |-> guard.event_type, in |-> in3]]
                  /\ UNCHANGED lastResponse
    /\ UNCHANGED <<events, sender_alive, receiver_alive, consumer, enqueued,
                   startLog, doneLog, sendLog, lost>>
    /\ UNCHANGED asideVars

\* the body of a GitHub request has been read (it is over the limit, or it
\* is one of the deliveries): the rest of SignedGitHubPayload::from_data, then
\* github_webhook
GitHubBody(t) ==
    /\ task[t].pc = "github_body"
    /\ \/ LET guard == SignedGitHubPayload_body(TRUE, <<>>, <<>>)
          IN  /\ guard # 0
              /\ Respond(t, "github", "size", guard,
                         [task[t].in EXCEPT !.too_large = TRUE], 0)
              /\ UNCHANGED <<events, enqueued>>
       \/ \E delivery \in GitHubDeliveries :
            LET body == delivery.body
                signature == delivery.signature
                in5 == [task[t].in EXCEPT !.signature = signature,
                                          !.raw = body.raw,
                                          !.shape = body.doc.shape]
                guard == SignedGitHubPayload_body(FALSE, signature, body.raw)
                route == github_webhook(task[t].event_type, body.doc,
                                        receiver_alive)
            IN  IF guard # 0
                THEN /\ Respond(t, "github", "signature", guard, in5, 0)
                     /\ UNCHANGED <<events, enqueued>>
                ELSE IF route.send
                THEN /\ Send([NoEvent EXCEPT !.source = "github",
                                             !.doc = body.doc,
                                             !.credential = signature,
                                             !.raw = body.raw])
                     /\ Respond(t, "github", "route", route.status, in5,
                                enqueued + 1)
                ELSE /\ Respond(t, "github", "route", route.status, in5, 0)
                     /\ UNCHANGED <<events, enqueued>>
    /\ UNCHANGED <<arrived, sender_alive, receiver_alive, consumer,
                   startLog, doneLog, sendLog, lost>>
    /\ UNCHANGED asideVars

\* POST /api/webhooks/prolosite/<endpoint>: AuthorizationHeader::from_request
ProlositeRequest(t) ==
    /\ task[t].pc = "idle"
    /\ sender_alive
    /\ arrived < MaxRequests
    /\ arrived' = arrived + 1
    /\ \E endpoint \in ProlositeEndpoints, authorization \in AuthorizationHeaders :
         LET guard == AuthorizationHeader_from_request(authorization)
             in1 == [NoInputs EXCEPT !.authorization = authorization]
         IN  IF guard # 0
             THEN Respond(t, endpoint, "authorization", guard, in1, 0)
             ELSE /\ task' = [task EXCEPT ![t] =
                                [pc |-> "prolosite_body", endpoint |-> endpoint,
                                 event_type |-> "-", in |-> in1]]
                  /\ UNCHANGED lastResponse
    /\ UNCHANGED <<events, sender_alive, receiver_alive, consumer, enqueued,
                   startLog, doneLog, sendLog, lost>>
    /\ UNCHANGED asideVars

\* the body of a website request has been read: the Json<T> guard, then the
\* route
ProlositeBody(t) ==
    /\ task[t].pc = "prolosite_body"
    /\ \E body \in ProlositeBodies :
         LET in2 == [task[t].in EXCEPT !.body = body]
             guard == Json_from_data(body)
             route == prolosite_route(receiver_alive)
         IN  IF guard # 0
             THEN /\ Respond(t, task[t].endpoint, "json", guard, in2, 0)
                  /\ UNCHANGED <<events, enqueued>>
             ELSE IF route.send
             THEN /\ Send([NoEvent EXCEPT
                             !.source = "prolosite",
                             !.doc = Doc(task[t].endpoint, "", NoRepo),
                             !.credential = task[t].in.authorization[1]])
                  /\ Respond(t, task[t].endpoint, "route", route.status, in2,
                             enqueued + 1)
             ELSE /\ Respond(t, task[t].endpoint, "route", route.status, in2, 0)
                  /\ UNCHANGED <<events, enqueued>>
    /\ UNCHANGED <<arrived, sender_alive, receiver_alive, consumer,
                   startLog, doneLog, sendLog, lost>>
    /\ UNCHANGED asideVars

\* POST /api/webhooks/generic/<endpoint>: the route takes JSON requests only
\* (format = "json"; a request of another content type matches no route,
\* which is a 404), then GenericAuthorize::from_request
GenericRequest(t) ==
    /\ task[t].pc = "idle"
    /\ sender_alive
    /\ arrived < MaxRequests
    /\ arrived' = arrived + 1
    /\ \E endpoint \in GenericEndpointNames, json_ct \in BOOLEAN,
          authorization \in GenericAuthorizationHeaders :
         LET in1 == [NoInputs EXCEPT !.generic_endpoint = endpoint,
                                     !.json_ct = json_ct]
             in2 == [in1 EXCEPT !.authorization = authorization]
             guard == GenericAuthorize_from_request(authorization, endpoint)
         IN  IF ~json_ct
             THEN Respond(t, "generic", "format", 404, in1, 0)
             ELSE IF guard # 0
             THEN Respond(t, "generic", "authorization", guard, in2, 0)
             ELSE /\ task' = [task EXCEPT ![t] =
                                [pc |-> "generic_body", endpoint |-> "generic",
                                 event_type |-> "-", in |-> in2]]
                  /\ UNCHANGED lastResponse
    /\ UNCHANGED <<events, sender_alive, receiver_alive, consumer, enqueued,
                   startLog, doneLog, sendLog, lost>>
    /\ UNCHANGED asideVars

\* the body of a generic request has been read: the Json<GenericPayload>
\* guard, then the route
GenericBody(t) ==
    /\ task[t].pc = "generic_body"
    /\ \E body \in ProlositeBodies :
         LET in3 == [task[t].in EXCEPT !.body = body]
             guard == Json_from_data(body)
             route == generic(receiver_alive)
         IN  IF guard # 0
             THEN /\ Respond(t, "generic", "json", guard, in3, 0)
                  /\ UNCHANGED <<events, enqueued>>
             ELSE IF route.send
             THEN /\ Send([NoEvent EXCEPT
                             !.source = "generic",
                             !.doc = Doc("generic", "", NoRepo),
                             !.credential = task[t].in.authorization[1]])
                  /\ Respond(t, "generic", "route", route.status, in3,
                             enqueued + 1)
             ELSE /\ Respond(t, "generic", "route", route.status, in3, 0)
                  /\ UNCHANGED <<events, enqueued>>
    /\ UNCHANGED <<arrived, sender_alive, receiver_alive, consumer,
                   startLog, doneLog, sendLog, lost>>
    /\ UNCHANGED asideVars

\* rocket.launch() returns once no request is in flight; the server and the
\* EventSender it manages are dropped
Shutdown ==
    /\ sender_alive
    /\ \A t \in Tasks : task[t].pc = "idle"
    /\ sender_alive' = FALSE
    /\ UNCHANGED <<task, arrived, lastResponse, events, receiver_alive, consumer,
                   enqueued, startLog, doneLog, sendLog, lost>>
    /\ UNCHANGED asideVars

(***************************************************************************)
(* The consumer task (Prololo::receive_events).                            *)
(***************************************************************************)

\* events.recv().await yields Some(event)
Recv ==
    /\ consumer.pc = "recv"
    /\ events # <<>>
    /\ LET got == recv(events)
       IN  /\ consumer' = [pc |-> "handle", event |-> got.event, room |-> "-"]
           /\ events' = got.rest
           /\ startLog' = Append(startLog, got.event.id)
    /\ UNCHANGED <<task, arrived, lastResponse, sender_alive, receiver_alive,
                   enqueued, doneLog, sendLog, lost>>
    /\ UNCHANGED asideVars

\* events.recv().await yields None: the channel is empty and every sender is
\* dropped; the loop breaks and the task ends
RecvNone ==
    /\ consumer.pc = "recv"
    /\ events = <<>>
    /\ ~sender_alive
    /\ consumer' = [consumer EXCEPT !.pc = "exited"]
    /\ receiver_alive' = FALSE
    /\ UNCHANGED <<task, arrived, lastResponse, events, sender_alive, enqueued,
                   startLog, doneLog, sendLog, lost>>
    /\ UNCHANGED asideVars

\* the loop is through with the event it took
Finish(result) ==
    LET next == receive_events_after(result)
    IN  /\ doneLog' = Append(doneLog, [id |-> consumer.event.id, result |-> result,
                                       doc |-> consumer.event.doc])
        /\ consumer' = [pc |-> next, event |-> NoEvent, room |-> "-"]
        /\ IF next = "recv"
           THEN UNCHANGED <<events, receiver_alive, lost>>
           ELSE /\ receiver_alive' = FALSE
                /\ lost' = events
                /\ events' = <<>>

\* Self::handle_event(event, ..) up to the first await: the handler, the
\* room, and the call of room.send
HandleEvent ==
    /\ consumer.pc = "handle"
    /\ LET outcome == handle_event(consumer.event, joined, rtConfig)
       IN  IF outcome.result = "send"
           THEN /\ consumer' = [consumer EXCEPT !.pc = "send",
                                                !.room = outcome.room]
                /\ sendLog' = Append(sendLog, consumer.event.id)
                /\ UNCHANGED <<events, receiver_alive, doneLog, lost>>
           ELSE /\ Finish(outcome.result)
                /\ UNCHANGED sendLog
    /\ UNCHANGED <<task, arrived, lastResponse, sender_alive, enqueued, startLog>>
    /\ UNCHANGED asideVars

\* room.send(message, None).await returns, with Ok or with an error
SendReturns ==
    /\ consumer.pc = "send"
    /\ \E result \in {"sent", "send_error"} : Finish(result)
    /\ UNCHANGED <<task, arrived, lastResponse, sender_alive, enqueued, startLog,
                   sendLog>>
    /\ UNCHANGED asideVars

Next ==
    \/ \E t \in Tasks : GitHubRequest(t)
    \/ \E t \in Tasks : GitHubBody(t)
    \/ \E t \in Tasks : ProlositeRequest(t)
    \/ \E t \in Tasks : ProlositeBody(t)
    \/ Shutdown
    \/ Recv
    \/ RecvNone
    \/ HandleEvent
    \/ SendReturns

Spec == Init /\ [][Next]_vars

\* the server under requests to the generic endpoint
NextGeneric ==
    \/ \E t \in Tasks : GenericRequest(t)
    \/ \E t \in Tasks : GenericBody(t)
    \/ Shutdown
    \/ Recv
    \/ RecvNone
    \/ HandleEvent
    \/ SendReturns

SpecGeneric == Init /\ [][NextGeneric]_vars

(***************************************************************************)
(* The consumer on its own: two deliveries were accepted and wait on the   *)
(* channel; the first is any event a handler knows, each with the          *)
(* sub-actions and optional fields that decide what the handler does.      *)
(***************************************************************************)

\* an action no handler knows
UnknownAction == "frobnicated"

IssuesDocs ==
    { Doc("issues", action, "prologin/site") :
        action \in {"assigned", "labeled", "unlabeled", "opened", "edited",
                    "milestoned", "demilestoned", UnknownAction} }
    \cup { [Doc("issues", "assigned", "prologin/site") EXCEPT !.assignee = TRUE],
           [Doc("issues", "edited", "prologin/site") EXCEPT !.changes = "empty"],
           [Doc("issues", "edited", "prologin/site") EXCEPT !.changes = "title"],
           Doc("issues", "opened", "prologin/camisole") }

IssueCommentDocs ==
    { Doc("issue_comment", action, "prologin/site") :
        action \in {"created", "edited", "deleted", UnknownAction} }

MembershipDocs ==
    { [Doc("membership", action, NoRepo) EXCEPT !.privacy = privacy] :
        action \in {"added", "removed", UnknownAction},
        privacy \in {"closed", "secret"} }

OrganizationDocs ==
    { Doc("organization", action, NoRepo) :
        action \in {"member_invited", "member_removed", "renamed", UnknownAction} }
    \cup { [Doc("organization", "member_invited", NoRepo)
                EXCEPT !.invitation = TRUE, !.user = TRUE],
           [Doc("organization", "member_added", NoRepo)
                EXCEPT !.membership = TRUE] }

PullRequestDocs ==
    { Doc("pull_request", action, "prologin/site") :
        action \in {"assigned", "review_requested", "labeled", "unlabeled",
                    "review_requested_removed", "opened", "closed",
                    UnknownAction} }
    \cup { [Doc("pull_request", "closed", "prologin/site") EXCEPT !.merged = "true"] }

PullRequestReviewDocs ==
    { Doc("pull_request_review", action, "prologin/site") :
        action \in {"submitted", "edited", "dismissed", UnknownAction} }
    \cup { [Doc("pull_request_review", "submitted", "prologin/site")
                EXCEPT !.state = "pending"] }

PullRequestReviewCommentDocs ==
    { [Doc("pull_request_review_comment", action, "prologin/site")
            EXCEPT !.review_id = review_id] :
        action \in {"created", "edited", "deleted", UnknownAction},
        review_id \in BOOLEAN }

RepositoryDocs ==
    { Doc("repository", action, "prologin/site") :
        action \in {"created", "renamed", "edited", UnknownAction} }
    \cup { [Doc("repository", "renamed", "prologin/site") EXCEPT !.changes = "name"] }

\* events without an action: a tag created in a repository of each kind of
\* destination, a branch, commit comments, a fork, pings, pushes
OtherDocs ==
    { [Doc("create", "", repo) EXCEPT !.ref_type = "tag"] :
        repo \in {"prologin/site", "prologin/camisole", "prologin/ghost",
                  "prologin/other"} }
    \cup { [Doc("create", "", "prologin/site") EXCEPT !.ref_type = "branch"],
           [Doc("commit_comment", "", "prologin/site")
                EXCEPT !.commit_id = <<97, 98, 99>>],
           [Doc("commit_comment", "", "prologin/ghost")
                EXCEPT !.commit_id = <<48, 49, 50, 51, 52, 53, 54, 55>>],
           Doc("fork", "", "prologin/site"),
           Doc("ping", "", "prologin/site"),
           Doc("ping", "", NoRepo),
           Doc("push", "", "prologin/site"),
           [Doc("push", "", "prologin/site")
                EXCEPT !.commits = 1,
                       !.commit_id = <<48, 49, 50, 51, 52, 53, 54, 55>>],
           [Doc("push", "", "prologin/site")
                EXCEPT !.commits = 1, !.branch_ref = FALSE,
                       !.commit_id = <<48, 49, 50, 51, 52, 53, 54, 55>>] }

HandlerDocs ==
    IssuesDocs \cup IssueCommentDocs \cup MembershipDocs \cup OrganizationDocs
    \cup PullRequestDocs \cup PullRequestReviewDocs
    \cup PullRequestReviewCommentDocs \cup RepositoryDocs \cup OtherDocs

\* the event that waits behind the first: one that is sent, one for a room
\* that is not joined, one that is not announced
FollowDocs ==
    { [Doc("create", "", "prologin/site") EXCEPT !.ref_type = "tag"],
      Doc("issues", "opened", "prologin/camisole"),
      [Doc("membership", "added", NoRepo) EXCEPT !.privacy = "secret"] }

\* the event github_webhook puts on the channel for a document
QueuedEvent(id, doc) ==
    [id |-> id, source |-> "github", doc |-> doc,
     credential |-> Sign(GitHubSecret, <<123, id>>), raw |-> <<123, id>>]

\* the configurations of the consumer: the one of the server, and the same
\* with no room flagged default
ConsumeConfigs ==
    { Config,
      [Config EXCEPT !.matrix_rooms =
          [name \in DOMAIN matrix_rooms |->
              [matrix_rooms[name] EXCEPT !.default = FALSE]]] }

InitConsume ==
    /\ InitNoSig /\ InitNoJoin /\ InitNoBuilder /\ InitClient /\ InitNoShorten
    /\ rtConfig \in ConsumeConfigs
    /\ rtRepo = NoRepo
    /\ rtRoom = NoRoom
    /\ task = [t \in Tasks |-> IdleTask]
    /\ arrived = 2
    /\ \E first \in HandlerDocs, second \in FollowDocs :
         /\ events = <<QueuedEvent(1, first), QueuedEvent(2, second)>>
         /\ lastResponse =
              [endpoint |-> "github", stage |-> "route", status |-> 200, enq |-> 2,
               in |-> [NoInputs EXCEPT !.event_types = <<second.shape>>,
                                       !.json_ct = TRUE, !.nsig = 1,
                                       !.signature = Sign(GitHubSecret, <<123, 2>>),
                                       !.raw = <<123, 2>>,
                                       !.shape = second.shape]]
    /\ enqueued = 2
    /\ sender_alive = TRUE
    /\ receiver_alive = TRUE
    /\ consumer = IdleConsumer
    /\ startLog = <<>>
    /\ doneLog = <<>>
    /\ sendLog = <<>>
    /\ lost = <<>>

\* the client joins one more room of the configuration (room.accept_invitation
\* succeeded in the membership handler)
RoomJoined ==
    /\ \E name \in DOMAIN rtConfig.matrix_rooms :
         /\ rtConfig.matrix_rooms[name].id \notin joined
         /\ joined' = joined \cup {rtConfig.matrix_rooms[name].id}
    /\ UNCHANGED nonClientVars

NextConsume ==
    \/ Shutdown
    \/ Recv
    \/ RecvNone
    \/ HandleEvent
    \/ SendReturns
    \/ RoomJoined

SpecConsume == InitConsume /\ [][NextConsume]_vars

(***************************************************************************)
(* Signature checks on their own: a sender signs a body, one bit of the    *)
(* body or of the declared signature is changed, and validate_signature    *)
(* is applied.                                                             *)
(***************************************************************************)

\* the longest body signed
MaxDataLen == 2

SigSecrets == {GitHubSecret, ForeignSecret}

SigBytes == {0, 97, 255}

SigData == UNION { [1..n -> SigBytes] : n \in 0..MaxDataLen }

InitSig ==
    /\ InitPipeline
    /\ InitNoRoute
    /\ InitNoJoin
    /\ InitNoBuilder
    /\ InitClient
    /\ InitNoShorten
    /\ vsSecret \in SigSecrets
    /\ vsData \in SigData
    /\ vsSignature = Sign(vsSecret, vsData)
    /\ vsValid = validate_signature(vsSecret, vsSignature, vsData)
    /\ vsFlip = NoFlip

\* one bit of the body changes on the way; the declared signature is checked
FlipDataBit ==
    /\ vsFlip.what = "none"
    /\ \E i \in 1..Len(vsData), k \in 0..7 :
         /\ vsData' = FlipBit(vsData, i, k)
         /\ vsFlip' = [what |-> "data", byte |-> i, bit |-> k]
         /\ vsValid' = validate_signature(vsSecret, vsSignature, vsData')
    /\ UNCHANGED <<vsSecret, vsSignature>>
    /\ UNCHANGED nonSigVars

\* one bit of the declared signature changes; it is checked against the body
FlipSignatureBit ==
    /\ vsFlip.what = "none"
    /\ \E i \in 1..Len(vsSignature), k \in 0..7 :
         /\ vsSignature' = FlipBit(vsSignature, i, k)
         /\ vsFlip' = [what |-> "signature", byte |-> i, bit |-> k]
         /\ vsValid' = validate_signature(vsSecret, vsSignature', vsData)
    /\ UNCHANGED <<vsSecret, vsData>>
    /\ UNCHANGED nonSigVars

NextSig == FlipDataBit \/ FlipSignatureBit

SpecSig == InitSig /\ [][NextSig]_vars

(***************************************************************************)
(* The choice of the room on its own: a configuration is loaded, and the   *)
(* room of a response is resolved as handle_event does.                    *)
(***************************************************************************)

\* the most destinations a configuration lists
MaxRules == 2

\* the repositories a response may name
RouteRepos == {"prologin/site", "prologin/camisole"}

\* the room bindings of a configuration: the three rooms, with one of them
\* flagged default or none
RouteRooms ==
    { [name \in DOMAIN matrix_rooms |->
          [id |-> matrix_rooms[name].id, default |-> (name = flagged)]] :
      flagged \in {"site", "general", "-"} }

\* a destination names a bound room or one that is not bound, and its regex
\* matches some of the repositories
RouteDestination ==
    [room : {"site", "dev", "nowhere"}, regex : SUBSET RouteRepos]

RouteDestinations == UNION { [1..n -> RouteDestination] : n \in 0..MaxRules }

RouteConfigs ==
    [matrix_rooms : RouteRooms, destinations : RouteDestinations]

InitRoute ==
    /\ InitPipeline
    /\ InitNoSig
    /\ InitNoJoin
    /\ InitNoBuilder
    /\ InitClient
    /\ InitNoShorten
    /\ rtConfig \in RouteConfigs
    /\ rtRepo = NoRepo
    /\ rtRoom = NoRoom

\* handle_event resolves the room of a response that names a repo or none
ResolveRoom ==
    /\ \E repo \in RouteRepos \cup {NoRepo} :
         /\ rtRepo' = repo
         /\ rtRoom' = room_of_response(rtConfig, repo)
    /\ UNCHANGED rtConfig
    /\ UNCHANGED nonRouteVars

NextRoute == ResolveRoom

SpecRoute == InitRoute /\ [][NextRoute]_vars

(***************************************************************************)
(* The membership handler (bot/handlers/autojoin.rs), one invitation at a  *)
(* time: it declines or tries to join, and on a failed join sleeps, doubles *)
(* the delay and tries again until the delay passes the ceiling.            *)
(***************************************************************************)

\* the invitations received during one run
MaxInvitations == 2

\* let mut delay = 2 (seconds)
JoinBaseDelay == 2

\* if delay > 3600 (seconds)
JoinDelayCeiling == 3600

\* Prololo::init: the ids of the rooms of the configuration
authorized_rooms == {matrix_rooms[name].id : name \in DOMAIN matrix_rooms}

\* the rooms an invitation may be for: the configured ones and two others
InvitedRooms == authorized_rooms \cup {"!elsewhere", "!spam"}

\* the test that guards reject_invitation: authorized_rooms.contains(room_id)
rejects(rooms, room_id) == room_id \in rooms

\* a mutant of the update of the delay that adds the base delay
next_delay_linear(delay) == delay + JoinBaseDelay

\* delay *= 2
next_delay(delay) == delay * 2

\* a mutant of the test that ends the loop, with twice the ceiling
gives_up_late(delay) == delay > 2 * JoinDelayCeiling

\* the test that ends the loop: delay > 3600
gives_up(delay) == delay > JoinDelayCeiling

InitJoin ==
    /\ InitPipeline /\ InitNoSig /\ InitNoRoute /\ InitNoJoin /\ InitNoBuilder
    /\ InitClient /\ InitNoShorten

\* a member event reaches autojoin_authorized_rooms: it returns at once when
\* the event is about another user or the room is not one the bot is invited
\* to; it rejects the invitation and returns when the test on
\* authorized_rooms says so; otherwise it goes on to join with the base delay
Invited ==
    /\ ajInvitation.pc \in {"idle", "done"}
    /\ ajCount < MaxInvitations
    /\ ajCount' = ajCount + 1
    /\ \E room_id \in InvitedRooms, for_bot \in BOOLEAN, invited \in BOOLEAN :
         LET received == [NoInvitation EXCEPT !.room_id = room_id]
         IN  IF ~for_bot \/ ~invited
             THEN ajInvitation' = [received EXCEPT !.pc = "done",
                                                   !.status = "ignored"]
             ELSE IF rejects(authorized_rooms, room_id)
             THEN ajInvitation' = [received EXCEPT !.pc = "done",
                                                   !.status = "declined"]
             ELSE ajInvitation' = [received EXCEPT !.pc = "accept",
                                                   !.status = "pending",
                                                   !.delay = JoinBaseDelay]
    /\ UNCHANGED nonJoinVars

\* room.accept_invitation().await returns: Ok ends the loop, Err enters its
\* body, which warns and starts to sleep
AcceptInvitation ==
    /\ ajInvitation.pc = "accept"
    /\ \E ok \in BOOLEAN :
         ajInvitation' =
             IF ok
             THEN [ajInvitation EXCEPT !.attempts = @ + 1, !.pc = "done",
                                       !.status = "joined",
                                       !.logged_joined = TRUE]
             ELSE [ajInvitation EXCEPT !.attempts = @ + 1, !.pc = "sleep"]
    /\ UNCHANGED ajCount
    /\ UNCHANGED nonJoinVars

\* sleep(Duration::from_secs(delay)).await returns: the delay is doubled, and
\* when it passes the ceiling the error is logged and the loop left (the
\* line after the loop then logs the join as a success)
SleepElapsed ==
    /\ ajInvitation.pc = "sleep"
    /\ LET delay == next_delay(ajInvitation.delay)
           slept == Append(ajInvitation.slept, ajInvitation.delay)
       IN  ajInvitation' =
             IF gives_up(delay)
             THEN [ajInvitation EXCEPT !.slept = slept, !.delay = delay,
                                       !.pc = "done", !.status = "abandoned",
                                       !.error = TRUE, !.logged_joined = TRUE]
             ELSE [ajInvitation EXCEPT !.slept = slept, !.delay = delay,
                                       !.pc = "accept"]
    /\ UNCHANGED ajCount
    /\ UNCHANGED nonJoinVars

NextJoin == Invited \/ AcceptInvitation \/ SleepElapsed

SpecJoin == InitJoin /\ [][NextJoin]_vars

(***************************************************************************)
(* A handler fills a message builder, operation by operation, and the      *)
(* message is built from it.                                               *)
(***************************************************************************)
InitBuilder ==
    /\ InitPipeline /\ InitNoSig /\ InitNoRoute /\ InitNoJoin /\ InitNoBuilder
    /\ InitClient /\ InitNoShorten

\* a handler applies one more operation to the builder it owns
Applied(op, text, href, after) ==
    /\ mbOut.status = "building"
    /\ mbOps < MaxOps
    /\ mbOps' = mbOps + 1
    /\ mbLast' = [op |-> op, text |-> text, href |-> href, before |-> mbBuilder]
    /\ mbBuilder' = after
    /\ UNCHANGED nonBuilderVars

\* write!(message, "{}", text)
Write ==
    /\ \E text \in Texts : Applied("write", text, NoUrl, write_fmt(mbBuilder, <<text>>))
    /\ UNCHANGED <<mbOut, mbMainLinks>>

Bold ==
    /\ Applied("bold", <<>>, NoUrl, bold(mbBuilder))
    /\ UNCHANGED <<mbOut, mbMainLinks>>

Code ==
    /\ Applied("code", <<>>, NoUrl, code(mbBuilder))
    /\ UNCHANGED <<mbOut, mbMainLinks>>

Color ==
    /\ \E c \in Colors : Applied("color", c, NoUrl, color(mbBuilder, c))
    /\ UNCHANGED <<mbOut, mbMainLinks>>

Tag ==
    /\ \E name \in TagTexts, emoji \in Emojis :
         Applied("tag", name, NoUrl, tag(mbBuilder, name, emoji))
    /\ UNCHANGED <<mbOut, mbMainLinks>>

Link ==
    /\ \E text \in LinkTexts, href \in Urls :
         Applied("link", text, href, link(mbBuilder, text, href))
    /\ UNCHANGED <<mbOut, mbMainLinks>>

MainLink ==
    /\ \E text \in LinkTexts, href \in Urls :
         /\ Applied("main_link", text, href, main_link(mbBuilder, text, href))
         /\ mbMainLinks' = Append(mbMainLinks, href)
    /\ UNCHANGED mbOut

\* close_last: pop().expect("cannot be empty") panics on an empty stack
CloseLast ==
    /\ IF mbBuilder.style_stack = <<>>
       THEN /\ Applied("close_last", <<>>, NoUrl, mbBuilder)
            /\ mbOut' = [mbOut EXCEPT !.status = "panicked"]
       ELSE /\ Applied("close_last", <<>>, NoUrl, close_last(mbBuilder))
            /\ UNCHANGED mbOut
    /\ UNCHANGED mbMainLinks

CloseStyles ==
    /\ Applied("close_styles", <<>>, NoUrl, close_styles(mbBuilder))
    /\ UNCHANGED <<mbOut, mbMainLinks>>

\* message.into() / build(): the builder is consumed
Build ==
    /\ mbOut.status = "building"
    /\ mbOut' = [status |-> "built", plain |-> build(mbBuilder).plain,
                 html |-> build(mbBuilder).html]
    /\ mbLast' = [op |-> "build", text |-> <<>>, href |-> NoUrl,
                  before |-> mbBuilder]
    /\ UNCHANGED <<mbBuilder, mbOps, mbMainLinks>>
    /\ UNCHANGED nonBuilderVars

NextBuilder ==
    \/ Write
    \/ Bold
    \/ Code
    \/ Color
    \/ Tag
    \/ Link
    \/ MainLink
    \/ CloseLast
    \/ CloseStyles
    \/ Build

SpecBuilder == InitBuilder /\ [][NextBuilder]_vars

(***************************************************************************)
(* Shortening of a text (bot/utils.rs).  A text is the sequence of its     *)
(* UTF-8 bytes, as in the message builder.                                 *)
(***************************************************************************)

\* the most characters of a text the shortened text holds
MaxChars == 3

\* the limit of shorten_content
ShortenMaxLength == 72

\* "…"
Ellipsis == <<226, 128, 166>>

\* characters of one, two and three bytes: "a", "é", "…"
ShortenChars == {<<97>>, <<195, 169>>, Ellipsis}

\* the texts of n characters
RECURSIVE TextsOfChars(_)
TextsOfChars(n) ==
    IF n = 0 THEN {<<>>}
    ELSE {c \o t : c \in ShortenChars, t \in TextsOfChars(n - 1)}

\* the texts given to shorten_content_length: up to one character more than
\* the largest limit
ShortContents == UNION {TextsOfChars(n) : n \in 0..(MaxChars + 1)}

\* the limits given to shorten_content_length
ShortLimits == 0..MaxChars

\* n times the character c
Repeat(c, n) == [i \in 1..(n * Len(c)) |-> c[((i - 1) % Len(c)) + 1]]

\* the texts given to shorten_content: one character repeated, around the
\* limit in bytes and in characters
LongContents ==
    {Repeat(c, n) : c \in ShortenChars, n \in {24, 25, 36, 37, 72, 73}}

\* str::chars().take(n).collect::<String>(): the bytes of the first n
\* characters
chars_take(s, n) ==
    LET chars_in(k) == Cardinality({i \in 1..k : IsCharStart(s[i])})
        taken == {k \in 0..Len(s) :
                    /\ chars_in(k) <= n
                    /\ k < Len(s) => IsCharStart(s[k + 1])}
    IN  SubSeq(s, 1, CHOOSE k \in taken : \A other \in taken : other <= k)

\* shorten_content_length: content.len() is the length in bytes
shorten_content_length(content, max_length) ==
    IF Len(content) <= max_length THEN content
    ELSE chars_take(content, max_length) \o Ellipsis

\* shorten_content: the same with max_length = 72
shorten_content(content) ==
    IF Len(content) <= ShortenMaxLength THEN content
    ELSE chars_take(content, ShortenMaxLength) \o Ellipsis

\* the function a handler calls on a text
shorten(input, content) ==
    IF input.fn = "shorten_content" THEN shorten_content(content)
    ELSE shorten_content_length(content, input.max_length)

InitShorten ==
    /\ InitPipeline /\ InitNoSig /\ InitNoRoute /\ InitNoJoin /\ InitNoBuilder
    /\ InitClient
    /\ \/ /\ \E content \in ShortContents, max_length \in ShortLimits :
               scInput = [fn |-> "shorten_content_length", content |-> content,
                          max_length |-> max_length]
       \/ /\ \E content \in LongContents :
               scInput = [fn |-> "shorten_content", content |-> content,
                          max_length |-> ShortenMaxLength]
    /\ scOut = NotShortened

\* the text is shortened
Shorten ==
    /\ scOut.applied = 0
    /\ scOut' = [applied |-> 1, once |-> shorten(scInput, scInput.content),
                 twice |-> <<>>]
    /\ UNCHANGED scInput
    /\ UNCHANGED nonShortenVars

\* the shortened text is shortened again
ShortenAgain ==
    /\ scOut.applied = 1
    /\ scOut' = [scOut EXCEPT !.applied = 2,
                              !.twice = shorten(scInput, scOut.once)]
    /\ UNCHANGED scInput
    /\ UNCHANGED nonShortenVars

NextShorten == Shorten \/ ShortenAgain

SpecShorten == InitShorten /\ [][NextShorten]_vars

(***************************************************************************)
(* Properties.                                                             *)
(***************************************************************************)

Last(s) == s[Len(s)]

ConsumerStopped == consumer.pc \in {"exited", "panicked"}

\* C1: the consumer takes the events in the order they were put on the
\* channel (ids 1, 2, ...), one at a time: an event is taken only when the one
\* before it is finished, its send included, and the sends follow the same
\* order.
FifoOneAtATime ==
    /\ startLog = [i \in 1..Len(startLog) |-> i]
    /\ \A i \in 1..Len(doneLog) : doneLog[i].id = startLog[i]
    /\ Len(startLog) - Len(doneLog) \in {0, 1}
    /\ (Len(startLog) - Len(doneLog) = 1) <=> (consumer.pc \in {"handle", "send"})
    /\ consumer.pc \in {"handle", "send"} => consumer.event.id = Last(startLog)
    /\ consumer.pc = "send" => Last(sendLog) = consumer.event.id
    /\ \A i \in 1..Len(sendLog) :
         /\ \E j \in 1..Len(startLog) : startLog[j] = sendLog[i]
         /\ \A j \in 1..Len(sendLog) : i < j => sendLog[i] < sendLog[j]

\* two events were sent, one after the other
FifoOneAtATimeWitness ==
    /\ Len(sendLog) = 2
    /\ Len(doneLog) = 2

\* C2: when the handling of an event ends with a routing error, a room that
\* is not joined or a send error, the loop is still running afterwards (it
\* only ever ends on the closed, empty channel) and no queued event is
\* dropped on account of it.
ErrorsDoNotStopLoop ==
    /\ (/\ doneLog # <<>>
        /\ Len(startLog) = Len(doneLog)
        /\ Last(doneLog).result \in ErrorResults)
       => \/ consumer.pc = "recv" /\ receiver_alive /\ lost = <<>>
          \/ consumer.pc = "exited" /\ ~sender_alive /\ events = <<>> /\ lost = <<>>
    /\ lost # <<>> => (doneLog # <<>> /\ Last(doneLog).result = "panic")

\* an event failed and the event enqueued after it was handled and sent
ErrorsDoNotStopLoopWitness ==
    /\ Len(doneLog) = 2
    /\ doneLog[1].result \in ErrorResults
    /\ doneLog[2].result = "sent"

\* C3: the consumer task ends only when the server has dropped its sender and
\* the channel is empty; no event makes it stop.
ConsumerStopsOnlyWhenClosed ==
    ConsumerStopped => (~sender_alive /\ consumer.pc = "exited" /\ lost = <<>>)

\* C4: once the sender is dropped, the consumer task does not end while an
\* event is still queued.
DrainsBeforeExit ==
    [][(~sender_alive /\ receiver_alive /\ ~receiver_alive')
          => (events = <<>> /\ lost' = <<>>)]_vars

\* C5: two requests that hold the same (so authenticate and parse alike) get
\* the same status, whatever happened to the consumer in between; stated for
\* a response and the response before it.
SameRequest(r1, r2) == r1.endpoint = r2.endpoint /\ r1.in = r2.in

StatusIgnoresDownstream ==
    [][(lastResponse.status # 0 /\ lastResponse' # lastResponse
            /\ SameRequest(lastResponse, lastResponse'))
          => lastResponse'.status = lastResponse.status]_vars

\* the declared signature is the MAC of the body under the server's key
Authentic(event) ==
    IF event.source = "github"
    THEN LET stripped == StripPrefix(event.credential, Sha256Prefix)
         IN  /\ stripped.some
             /\ HexDecode(stripped.rest).ok
             /\ HexDecode(stripped.rest).bytes = Mac(GitHubSecret, event.raw)
    ELSE event.credential = ProlositeSecret

\* C6: every event on the channel, in the consumer's hands or dropped with the
\* channel comes from a request whose signature (token) is the right one, and
\* a GitHub body reaches parse_payload only with a verified signature.
QueuedEventsAuthenticated ==
    /\ \A i \in 1..Len(events) : Authentic(events[i])
    /\ \A i \in 1..Len(lost) : Authentic(lost[i])
    /\ consumer.pc \in {"handle", "send"} => Authentic(consumer.event)
    /\ (lastResponse.endpoint = "github" /\ lastResponse.stage = "route")
          => Authentic([NoEvent EXCEPT !.source = "github",
                                       !.credential = lastResponse.in.signature,
                                       !.raw = lastResponse.in.raw])

\* an event signed in upper-case hex is on the channel
QueuedEventsAuthenticatedWitness ==
    /\ events # <<>>
    /\ events[1].source = "github"
    /\ events[1].credential # Sign(GitHubSecret, events[1].raw)

\* C7: a correctly signed GitHub request whose event type is not recognized
\* is answered with 200 and puts nothing on the channel.
UnknownTypeAcknowledged ==
    (/\ lastResponse.endpoint = "github"
     /\ lastResponse.stage = "route"
     /\ GitHubEventType_from_request(lastResponse.in.event_types).event_type
           = "unknown")
    => (lastResponse.status = 200 /\ lastResponse.enq = 0)

\* C8 as claimed: the signature a sender computes verifies, and after any
\* change of one bit of the body or of the declared signature it does not.
AnyBitFlipInvalidates ==
    /\ vsSignature # <<>> /\ vsFlip.what = "none" => vsValid
    /\ vsFlip.what # "none" => ~vsValid

\* the change turned a hex letter a-f of the declared MAC into A-F
CaseFlipOfHexLetter ==
    /\ vsFlip.what = "signature"
    /\ vsFlip.byte > Len(Sha256Prefix)
    /\ vsFlip.bit = 5
    /\ vsSignature[vsFlip.byte] >= 65
    /\ vsSignature[vsFlip.byte] <= 70

\* C8, amended: the signature a sender computes verifies; a change of one bit
\* of the body makes it fail; a change of one bit of the declared signature
\* makes it fail unless it only turns a hex letter into its upper case, which
\* decodes to the same MAC and still verifies.
BitFlipInvalidatesUpToHexCase ==
    /\ vsSignature # <<>> /\ vsFlip.what = "none" => vsValid
    /\ vsFlip.what = "data" => ~vsValid
    /\ vsFlip.what = "signature" => (vsValid <=> CaseFlipOfHexLetter)

\* a bit of a hex digit of the declared MAC was changed and the check failed
BitFlipInvalidatesWitness ==
    /\ vsFlip.what = "signature"
    /\ vsFlip.byte > Len(Sha256Prefix)
    /\ ~vsValid

\* the request of the response held a signature header that is missing,
\* repeated, without the sha256= prefix or not hex after it
BadSignatureHeader(r) ==
    \/ /\ r.stage \in {"signature_count", "size", "signature", "route"}
       /\ r.in.nsig # 1
    \/ /\ r.stage \in {"signature", "route"}
       /\ LET stripped == StripPrefix(r.in.signature, Sha256Prefix)
          IN  ~stripped.some \/ ~HexDecode(stripped.rest).ok

\* C9: a GitHub request whose signature header is missing, repeated, without
\* the prefix or not hex is answered with a client error (4xx) and puts
\* nothing on the channel.
BadSignatureRejected ==
    (lastResponse.endpoint = "github" /\ BadSignatureHeader(lastResponse))
    => /\ lastResponse.status >= 400
       /\ lastResponse.status < 500
       /\ lastResponse.enq = 0

\* a signature without the prefix was declared and the request rejected
BadSignatureRejectedWitness ==
    /\ lastResponse.endpoint = "github"
    /\ lastResponse.stage = "signature"
    /\ ~StripPrefix(lastResponse.in.signature, Sha256Prefix).some

RightToken(authorization) ==
    Len(authorization) = 1 /\ authorization[1] = ProlositeSecret

UnknownGenericEndpointNotFound ==
    (/\ lastResponse.endpoint = "generic"
     /\ lastResponse.in.generic_endpoint \notin DOMAIN generic_endpoints)
    => (lastResponse.status = 404 /\ lastResponse.enq = 0)

\* the destinations of the configuration whose regex matches the repo
MatchingRules == {i \in 1..Len(rtConfig.destinations) :
                     rtRepo \in rtConfig.destinations[i].regex}

FirstMatchingRule == CHOOSE i \in MatchingRules : \A j \in MatchingRules : i <= j

\* C12: when the response names a repo and some destination matches it, the
\* room found is the room bound to the first matching destination in
\* configured order, whatever later destinations match; when that name is
\* bound to no room the resolution fails and uses no later destination.
FirstMatchingRuleWins ==
    (rtRoom # NoRoom /\ rtRepo # NoRepo /\ MatchingRules # {})
    => LET name == rtConfig.destinations[FirstMatchingRule].room
       IN  IF name \in DOMAIN rtConfig.matrix_rooms
           THEN rtRoom = Ok(rtConfig.matrix_rooms[name].id)
           ELSE ~rtRoom.ok

\* the repo matches the first and the second destination, which name
\* different rooms, and the room of the first one was found
FirstMatchingRuleWinsWitness ==
    /\ rtRepo # NoRepo
    /\ MatchingRules = {1, 2}
    /\ rtConfig.destinations[1].room = "dev"
    /\ rtConfig.destinations[2].room = "site"
    /\ rtRoom = Ok("!dev")

\* C13: when the response names no repo, or a repo no destination matches,
\* the room found is the room flagged default (and the resolution fails when
\* no room is flagged).
DefaultWhenNoMatch ==
    (rtRoom # NoRoom /\ (rtRepo = NoRepo \/ MatchingRules = {}))
    => LET flagged == {name \in DOMAIN rtConfig.matrix_rooms :
                          rtConfig.matrix_rooms[name].default}
       IN  IF flagged = {} THEN ~rtRoom.ok
           ELSE \E name \in flagged : rtRoom = Ok(rtConfig.matrix_rooms[name].id)

\* a repo that no destination of a non-empty list matches went to the
\* default room
DefaultWhenNoMatchWitness ==
    /\ rtRepo # NoRepo
    /\ rtConfig.destinations # <<>>
    /\ MatchingRules = {}
    /\ rtConfig.matrix_rooms["general"].default
    /\ rtRoom = Ok("!general")

\* C14: an invitation for the bot is declined, with no join attempt, exactly
\* when its room is outside the authorized set; an invitation to an
\* authorized room is never declined and gets a join attempt.
DeclinesExactlyUnauthorized ==
    ajInvitation.status \in {"declined", "pending", "joined", "abandoned"}
    => /\ (ajInvitation.status = "declined")
             <=> (ajInvitation.room_id \notin authorized_rooms)
       /\ ajInvitation.status = "declined" => ajInvitation.attempts = 0
       /\ ajInvitation.room_id \in authorized_rooms
             => (ajInvitation.pc = "accept" \/ ajInvitation.attempts > 0)

RECURSIVE SumOf(_)
SumOf(waits) == IF waits = <<>> THEN 0 ELSE Head(waits) + SumOf(Tail(waits))

\* C15: the wait before the k-th retry is the base delay times 2^(k-1): the
\* waits are 2, 4, 8, ... seconds, and an attempt is made only once the wait
\* before it is over (there is never more than one attempt more than waits,
\* and none is under way during a wait).
BackoffDoubles ==
    /\ \A k \in 1..Len(ajInvitation.slept) :
         ajInvitation.slept[k] = JoinBaseDelay * 2^(k - 1)
    /\ ajInvitation.pc = "sleep"
         => ajInvitation.attempts = Len(ajInvitation.slept) + 1
    /\ ajInvitation.pc = "accept"
         => ajInvitation.attempts = Len(ajInvitation.slept)
    /\ ajInvitation.attempts <= Len(ajInvitation.slept) + 1

\* the third retry is due, after waits of 2, 4 and 8 seconds
BackoffDoublesWitness ==
    /\ ajInvitation.pc = "accept"
    /\ ajInvitation.slept = <<2, 4, 8>>

\* C16: when every attempt fails the loop ends: no wait is longer than the
\* ceiling, a join attempt is due only while the total wait is within the
\* ceiling, and once the total wait passes the ceiling the invitation is
\* given up with an error, at the first wait that passes it and with no
\* attempt after that wait.
RetryLoopBounded ==
    LET waited == SumOf(ajInvitation.slept)
    IN  /\ \A k \in 1..Len(ajInvitation.slept) :
              ajInvitation.slept[k] <= JoinDelayCeiling
        /\ ajInvitation.pc \in {"accept", "sleep"} => waited <= JoinDelayCeiling
        /\ waited > JoinDelayCeiling
              => /\ ajInvitation.status = "abandoned"
                 /\ ajInvitation.pc = "done"
                 /\ ajInvitation.error
        /\ ajInvitation.status = "abandoned"
              => /\ waited > JoinDelayCeiling
                 /\ waited - Last(ajInvitation.slept) <= JoinDelayCeiling
                 /\ ajInvitation.attempts = Len(ajInvitation.slept)
        /\ ajInvitation.error <=> ajInvitation.status = "abandoned"

\* every attempt failed and the invitation was given up
RetryLoopBoundedWitness ==
    /\ ajInvitation.status = "abandoned"
    /\ ajInvitation.attempts > 1

\* the text s with each of & < > " ' replaced by its entity and every other
\* byte kept, in order
RECURSIVE HtmlEscaped(_)
HtmlEscaped(s) ==
    IF s = <<>> THEN <<>>
    ELSE (CASE Head(s) = 38 -> <<38, 97, 109, 112, 59>>
            [] Head(s) = 60 -> <<38, 108, 116, 59>>
            [] Head(s) = 62 -> <<38, 103, 116, 59>>
            [] Head(s) = 34 -> <<38, 113, 117, 111, 116, 59>>
            [] Head(s) = 39 -> <<38, 35, 51, 57, 59>>
            [] OTHER -> <<Head(s)>>) \o HtmlEscaped(Tail(s))

\* C18: a write of s appends s as it is to plain and appends to the HTML the
\* copy of s in which & < > " ' are replaced by their entities and all else
\* is kept in order; the style stack and the recorded URL do not change.
WriteEscapes ==
    mbLast.op = "write"
    => /\ mbBuilder.plain = mbLast.before.plain \o mbLast.text
       /\ mbBuilder.html = mbLast.before.html \o HtmlEscaped(mbLast.text)
       /\ mbBuilder.style_stack = mbLast.before.style_stack
       /\ mbBuilder.url = mbLast.before.url

\* a text with a reserved character between two-byte letters was written
\* into a builder that had a style open and a URL recorded
WriteEscapesWitness ==
    /\ mbLast.op = "write"
    /\ mbLast.text = <<60, 195, 169, 62>>
    /\ mbLast.before.html # <<>>
    /\ mbLast.before.url # NoUrl

\* the entities of HTML text and the characters they stand for
Entities ==
    { [text |-> <<38, 97, 109, 112, 59>>, char |-> 38], [text |-> <<38, 108, 116, 59>>, char |-> 60],
      [text |-> <<38, 103, 116, 59>>, char |-> 62], [text |-> <<38, 113, 117, 111, 116, 59>>, char |-> 34],
      [text |-> <<38, 35, 51, 57, 59>>, char |-> 39] }

IsPrefix(p, s) == Len(p) <= Len(s) /\ SubSeq(s, 1, Len(p)) = p

\* the text an HTML fragment shows: elements (from < to the next >) are
\* removed and entities replaced by their characters; an element that is
\* never closed shows as the byte 0
RECURSIVE Rendered(_)
Rendered(h) ==
    IF h = <<>> THEN <<>>
    ELSE IF Head(h) = 60
    THEN IF \E j \in 1..Len(h) : h[j] = 62
         THEN LET j == CHOOSE j \in 1..Len(h) :
                          h[j] = 62 /\ \A k \in 1..(j - 1) : h[k] # 62
              IN  Rendered(SubSeq(h, j + 1, Len(h)))
         ELSE <<0>>
    ELSE IF \E e \in Entities : IsPrefix(e.text, h)
    THEN LET e == CHOOSE e \in Entities : IsPrefix(e.text, h)
         IN  <<e.char>> \o Rendered(SubSeq(h, Len(e.text) + 1, Len(h)))
    ELSE <<Head(h)>> \o Rendered(Tail(h))

\* C19: after any sequence of operations the HTML, with its elements removed
\* and its entities replaced, shows exactly the plain text: every text put
\* into the HTML, link texts included, has its reserved characters escaped.
MarkupDenotesPlain ==
    mbOut.status = "building" => Rendered(mbBuilder.html) = mbBuilder.plain

\* the text t occurs in s
Occurs(t, s) ==
    \E i \in 0..(Len(s) - Len(t)) : SubSeq(s, i + 1, i + Len(t)) = t

\* the number of places where t occurs in s
Occurrences(t, s) ==
    Cardinality({i \in 0..(Len(s) - Len(t)) : SubSeq(s, i + 1, i + Len(t)) = t})

BuildRequiresClosedStyles ==
    mbOut.status = "built" => mbLast.before.style_stack = <<>>

\* the closing tag of a style, as the HTML of a message spells it
ClosingTag(style) ==
    CASE style = "Bold" -> <<60, 47, 98, 62>>                      \* </b>
      [] style = "Code" -> <<60, 47, 99, 111, 100, 101, 62>>       \* </code>
      [] style = "Span" -> <<60, 47, 115, 112, 97, 110, 62>>       \* </span>

\* the closing tags of a stack of styles, the one opened last first
RECURSIVE ClosingTagsReversed(_)
ClosingTagsReversed(stack) ==
    IF stack = <<>> THEN <<>>
    ELSE ClosingTag(stack[Len(stack)])
            \o ClosingTagsReversed(SubSeq(stack, 1, Len(stack) - 1))

\* C28: close_last closes the style opened last: it appends that style's
\* closing tag to the HTML, takes it off the stack and leaves the styles
\* opened before it and the plain text alone; close_styles appends the closing
\* tags of all open styles, the last opened first, and leaves the stack empty;
\* close_last on an empty stack panics, and nothing else does.
CloseLastIsLifo ==
    LET before == mbLast.before
        stack == before.style_stack
    IN  /\ (mbLast.op = "close_last" /\ stack # <<>>)
             => /\ mbOut.status = "building"
                /\ mbBuilder.style_stack = SubSeq(stack, 1, Len(stack) - 1)
                /\ mbBuilder.html = before.html \o ClosingTag(stack[Len(stack)])
                /\ mbBuilder.plain = before.plain
        /\ mbLast.op = "close_styles"
             => /\ mbOut.status = "building"
                /\ mbBuilder.style_stack = <<>>
                /\ mbBuilder.html = before.html \o ClosingTagsReversed(stack)
                /\ mbBuilder.plain = before.plain
        /\ mbOut.status = "panicked" <=> (mbLast.op = "close_last" /\ stack = <<>>)

\* close_last was applied with two different styles open
CloseLastIsLifoWitness ==
    /\ mbLast.op = "close_last"
    /\ Len(mbLast.before.style_stack) = 2
    /\ mbLast.before.style_stack[1] # mbLast.before.style_stack[2]
    /\ mbBuilder.style_stack = <<mbLast.before.style_stack[1]>>

\* C29: an invitation the handler gave up on is never reported as joined: the
\* "Successfully joined room" line is logged only for an invitation whose
\* accept attempt succeeded.
JoinedReportedOnlyAfterAccept ==
    ajInvitation.logged_joined => ajInvitation.status = "joined"

\* the number of characters of a text: its bytes that are no continuation
\* bytes (10xxxxxx)
CharacterCount(s) ==
    Cardinality({i \in 1..Len(s) : s[i] < 128 \/ s[i] > 191})

\* the first n characters of a text that has more than n: the prefix that
\* ends before character n + 1
FirstCharacters(s, n) ==
    LET starts == {i \in 1..Len(s) : s[i] < 128 \/ s[i] > 191}
        next == CHOOSE i \in starts :
                    Cardinality({j \in starts : j < i}) = n
    IN  SubSeq(s, 1, next - 1)

\* C22: a text of at most b characters is returned as it is, a longer one as
\* its first b characters and one ellipsis (b is 72 for shorten_content and
\* the caller's limit for shorten_content_length), and shortening a shortened
\* text changes nothing; characters may take several bytes.
TruncationByCharacters ==
    LET content == scInput.content
        b == scInput.max_length
    IN  /\ scOut.applied >= 1
            => scOut.once = IF CharacterCount(content) <= b THEN content
                            ELSE FirstCharacters(content, b) \o Ellipsis
        /\ scOut.applied = 2 => scOut.twice = scOut.once

\* the ids of the events for which room.send was called
SentIds == {sendLog[i] : i \in DOMAIN sendLog}

\* the consumer went on after the event it finished last
WentOn == consumer.pc # "panicked" /\ lost = <<>>

\* the sub-actions that are left out on purpose
Suppressed(doc) ==
    \/ doc.shape = "issues" /\ doc.action \in {"labeled", "unlabeled"}
    \/ /\ doc.shape = "pull_request"
       /\ doc.action \in {"labeled", "unlabeled", "review_requested_removed"}
    \/ doc.shape = "issue_comment" /\ doc.action \in {"edited", "deleted"}
    \/ doc.shape = "pull_request_review" /\ doc.action = "edited"
    \/ doc.shape = "repository" /\ doc.action = "edited"
    \/ doc.shape = "pull_request_review_comment" /\ doc.review_id

\* C23: an event with a suppressed sub-action ends with no response (None);
\* for an event that ends with None no room is resolved (no routing error, no
\* room that is not joined) and room.send is not called, and the consumer goes
\* on: it neither panics nor drops what waits, and it leaves only once it has
\* taken every event.
SuppressedNotAnnounced ==
    /\ \A i \in DOMAIN doneLog :
         /\ Suppressed(doneLog[i].doc) => doneLog[i].result = "none"
         /\ doneLog[i].result = "none" => doneLog[i].id \notin SentIds
    /\ (doneLog # <<>> /\ Last(doneLog).result = "none")
         => /\ WentOn
            /\ consumer.pc = "send" => consumer.event.id # Last(doneLog).id
            /\ consumer.pc = "exited" => Len(startLog) = enqueued

\* a pull request event with the action labeled ended with None, and the
\* event behind it was sent
SuppressedNotAnnouncedWitness ==
    /\ Len(doneLog) = 2
    /\ doneLog[1].doc.shape = "pull_request"
    /\ doneLog[1].doc.action = "labeled"
    /\ doneLog[1].result = "none"
    /\ doneLog[2].result = "sent"
    /\ sendLog = <<2>>

\* an issues event with the action labeled
LabeledIssue(doc) == doc.shape = "issues" /\ doc.action = "labeled"

\* C24 as stated: an issues event with the action labeled is never put on the
\* channel and the consumer never takes one.
LabeledIssueNeverEnqueued ==
    /\ \A i \in DOMAIN events : ~LabeledIssue(events[i].doc)
    /\ ~LabeledIssue(consumer.event.doc)
    /\ \A i \in DOMAIN doneLog : ~LabeledIssue(doneLog[i].doc)

\* C24: an issues event with the action labeled is put on the channel and
\* taken by the consumer like any other, and it is never announced: its
\* handling ends with None and room.send is never called for it.
LabeledIssueNeverAnnounced ==
    /\ consumer.pc = "send" => ~LabeledIssue(consumer.event.doc)
    /\ \A i \in DOMAIN doneLog :
         LabeledIssue(doneLog[i].doc)
            => (doneLog[i].result = "none" /\ doneLog[i].id \notin SentIds)

\* a labeled issues event was accepted with 200, put on the channel, taken by
\* the consumer and finished with None
LabeledIssueNeverAnnouncedWitness ==
    /\ doneLog # <<>>
    /\ LabeledIssue(Last(doneLog).doc)
    /\ Last(doneLog).result = "none"
    /\ Last(doneLog).id \in {startLog[i] : i \in DOMAIN startLog}
    /\ lastResponse.enq = Last(doneLog).id
    /\ lastResponse.status = 200

\* C25: an event whose action no handler knows ends with None: no error, no
\* send, and the consumer goes on with what waits.
UnknownActionIgnored ==
    /\ \A i \in DOMAIN doneLog :
         doneLog[i].doc.action = UnknownAction
            => (doneLog[i].result = "none" /\ doneLog[i].id \notin SentIds)
    /\ (doneLog # <<>> /\ Last(doneLog).doc.action = UnknownAction)
         => /\ WentOn
            /\ consumer.pc = "exited" => Len(startLog) = enqueued

\* a repository event with an unknown action ended with None and the event
\* behind it was handled
UnknownActionIgnoredWitness ==
    /\ Len(doneLog) = 2
    /\ doneLog[1].doc.shape = "repository"
    /\ doneLog[1].doc.action = UnknownAction
    /\ doneLog[1].result = "none"
    /\ doneLog[2].result \in {"sent", "send_error"}

\* the room of a response cannot be resolved: the first destination that
\* matches the repo names a room that is not bound, or the default room is
\* needed (no repo, or no destination matches) and no room is flagged default
Unresolvable(config, repo) ==
    LET matching == {i \in 1..Len(config.destinations) :
                        repo \in config.destinations[i].regex}
        first == CHOOSE i \in matching : \A j \in matching : i <= j
    IN  IF repo # NoRepo /\ matching # {}
        THEN config.destinations[first].room \notin DOMAIN config.matrix_rooms
        ELSE \A name \in DOMAIN config.matrix_rooms :
                ~config.matrix_rooms[name].default

\* C26: when the room of a response cannot be resolved, the handling of the
\* event ends with a routing error: no later destination and no default is
\* used in place of an unbound room, room.send is not called, and the consumer
\* goes on with the next event.
RoutingErrorDropsMessage ==
    /\ \A i \in DOMAIN doneLog :
         LET response == handle_github_event(doneLog[i].doc)
         IN  /\ (response.kind = "some" /\ Unresolvable(rtConfig, response.repo))
                   => doneLog[i].result = "routing_error"
             /\ doneLog[i].result = "routing_error"
                   => doneLog[i].id \notin SentIds
    /\ (doneLog # <<>> /\ Last(doneLog).result = "routing_error")
         => /\ WentOn
            /\ consumer.pc = "exited" => Len(startLog) = enqueued

\* a tag in a repo whose destination names an unbound room ended with a
\* routing error although a room is flagged default, and the event behind it
\* was sent
RoutingErrorDropsMessageWitness ==
    /\ Len(doneLog) = 2
    /\ doneLog[1].doc.repo = "prologin/ghost"
    /\ doneLog[1].result = "routing_error"
    /\ \E name \in DOMAIN rtConfig.matrix_rooms : rtConfig.matrix_rooms[name].default
    /\ doneLog[2].result = "sent"
    /\ sendLog = <<2>>

\* a response that needed the default room of a configuration without one
\* ended with a routing error, and the event behind it was handled
MissingDefaultWitness ==
    /\ Len(doneLog) = 2
    /\ doneLog[1].doc.repo = "prologin/other"
    /\ doneLog[1].result = "routing_error"
    /\ \A name \in DOMAIN rtConfig.matrix_rooms : ~rtConfig.matrix_rooms[name].default

\* C27: room.send is called at most once for an event, and only for an event
\* the consumer took (once); an event that ended with a room not joined, a
\* routing error, None or a panic was never sent, and one whose send failed
\* was sent once, whatever rooms are joined later.
AtMostOneSendPerEvent ==
    /\ \A i, j \in DOMAIN sendLog : sendLog[i] = sendLog[j] => i = j
    /\ \A i, j \in DOMAIN startLog : startLog[i] = startLog[j] => i = j
    /\ \A i, j \in DOMAIN doneLog : doneLog[i].id = doneLog[j].id => i = j
    /\ SentIds \subseteq {startLog[i] : i \in DOMAIN startLog}
    /\ \A i \in DOMAIN doneLog :
         doneLog[i].id \in SentIds <=> doneLog[i].result \in {"sent", "send_error"}

\* the first event was for a room that was not joined, the room was joined
\* afterwards, and the only send is the one of the second event
AtMostOneSendPerEventWitness ==
    /\ Len(doneLog) = 2
    /\ doneLog[1].result = "not_joined"
    /\ "!dev" \in joined
    /\ sendLog = <<2>>
    /\ consumer.pc = "exited"

\* a send failed, and the only later send is the one of the next event
FailedSendNotRetriedWitness ==
    /\ Len(doneLog) = 2
    /\ doneLog[1].result = "send_error"
    /\ doneLog[2].result = "sent"
    /\ sendLog = <<1, 2>>

\* C30: a membership event of a team whose privacy is secret ends with None,
\* whatever its action, and room.send is never called for it.
SecretTeamNeverAnnounced ==
    /\ (consumer.pc = "send" /\ consumer.event.doc.shape = "membership")
          => consumer.event.doc.privacy # "secret"
    /\ \A i \in DOMAIN doneLog :
         (doneLog[i].doc.shape = "membership" /\ doneLog[i].doc.privacy = "secret")
            => (doneLog[i].result = "none" /\ doneLog[i].id \notin SentIds)

\* a member was added to a secret team and nothing was sent, while a room is
\* flagged default and joined
SecretTeamNeverAnnouncedWitness ==
    /\ doneLog # <<>>
    /\ doneLog[1].doc.shape = "membership"
    /\ doneLog[1].doc.privacy = "secret"
    /\ doneLog[1].doc.action = "added"
    /\ doneLog[1].result = "none"
    /\ rtConfig = Config
    /\ sendLog = <<>>

====
